---- MODULE Spec2Model ----
(***************************************************************************)
(* A model of the shield_compatibility plugin's FFmpeg helper library:     *)
(*   - ffprobe_cmd, ffprobe_file and the class Probe                       *)
(*   - the class StreamMapper                                              *)
(*                                                                         *)
(* Python values are modelled as follows. A str is a string, a list is a   *)
(* sequence, a bool is a BOOLEAN. A slot that holds None or a value holds  *)
(* NoneValue or Some(value). A dict is a record with one field per key the *)
(* code reads, each MissingKey or Key(value). An object is the record of   *)
(* its attributes, and a method is an operator from the object (self) and  *)
(* the arguments to the object afterwards and the outcome of the call.     *)
(***************************************************************************)
EXTENDS Integers, Sequences, FiniteSets, TLC

VARIABLES
    mapper,     \* the StreamMapper instance
    call,       \* the last StreamMapper call: its input, outcome and hook trace
    probe,      \* the Probe instance
    pcall,      \* the last Probe call: its input and outcome
    established, \* history: the probe_info the last successful Probe.file or
                 \* Probe.set_probe established
    data,       \* the data object the plugin runners hand to Probe.init_probe
    icall,      \* the last Probe.init_probe call: its input and outcome
    assigned,   \* history: per option group, the value each flag was last given
    peer,       \* a second StreamMapper instance
    klass       \* the two list objects that are attributes of the class StreamMapper

vars == <<mapper, call, probe, pcall, established, data, icall, assigned, peer,
          klass>>

(***************************************************************************)
(* Bounds of the model.                                                    *)
(***************************************************************************)
MaxStreams == 3
MaxArgs == 2
MaxKwargs == 1
MaxOptions == 9
MaxOutput == 2
MaxProbed == 2

(***************************************************************************)
(* Python values.                                                          *)
(***************************************************************************)
NoneValue == [none |-> TRUE]
Some(value) == [none |-> FALSE, value |-> value]

MissingKey == [missing |-> TRUE]
Key(value) == [missing |-> FALSE, value |-> value]

\* d.get(key): None when the key is missing
get(d, key) == IF d[key].missing THEN NoneValue ELSE Some(d[key].value)

\* d.get(key, default)
get_default(d, key, default) == IF d[key].missing THEN default ELSE d[key].value

\* the codec_type compared as it is, without str.lower()
lower_unfolded(s) == s

\* str.lower() on the codec_type strings of the model
lower(s) ==
    CASE s = "Video" -> "video"
      [] s = "VIDEO" -> "video"
      [] s = "Audio" -> "audio"
      [] s = "CODEC_NAME" -> "codec_name"
      [] OTHER -> s

\* the elements of a sequence
Range(seq) == {seq[i] : i \in DOMAIN seq}

\* all sequences over S of length at most n
SeqUpTo(S, n) == UNION {[1..k -> S] : k \in 0..n}

\* the outcome of a call: a value returned, None returned, or an exception
Return(value) == [exc |-> "", none |-> FALSE, value |-> value]
ReturnNone == [exc |-> "", none |-> TRUE]
Raise(exc) == [exc |-> exc, none |-> FALSE]

Raised(out) == out.exc # ""

(***************************************************************************)
(* StreamMapper: class attributes and constructor.                         *)
(***************************************************************************)
stream_type_idents ==
    [video |-> "v", audio |-> "a", subtitle |-> "s", data |-> "d", attachment |-> "t"]

StreamKinds == DOMAIN stream_type_idents

\* video_stream_count .. attachment_stream_count, keyed by stream kind
ZeroCounts == [k \in StreamKinds |-> 0]

\* "stream_mapping = []" and "stream_encoding = []" in the class body
ClassLists == [stream_mapping |-> <<>>, stream_encoding |-> <<>>]

\* StreamMapper.__init__(logger, processing_stream_type); probe, the
\* directive lists, counters and paths are the class attributes.
\* directive_lists says which list objects self.stream_mapping and
\* self.stream_encoding are: those of the class, which __init__ does not
\* replace, or lists of the instance.
StreamMapper_init(processing_stream_type) ==
    [ probe                  |-> NoneValue,
      processing_stream_type |-> processing_stream_type,
      directive_lists        |-> "class",
      stream_mapping         |-> ClassLists.stream_mapping,
      stream_encoding        |-> ClassLists.stream_encoding,
      stream_count           |-> ZeroCounts,
      input_file             |-> "",
      output_file            |-> "",
      generic_options        |-> <<"-hide_banner", "-loglevel", "info">>,
      main_options           |-> <<>>,
      advanced_options       |-> <<"-strict", "-2", "-max_muxing_queue_size", "4096">> ]

(***************************************************************************)
(* StreamMapper: the mapping pass.                                         *)
(***************************************************************************)
\* '0:{}:{}'.format(codec_type, stream_id)
map_specifier(codec_type, stream_id) ==
    "0:" \o codec_type \o ":" \o ToString(stream_id)

\* '-c:{}:{}'.format(codec_type, stream_id)
codec_specifier(codec_type, stream_id) ==
    "-c:" \o codec_type \o ":" \o ToString(stream_id)

\* copy_stream_mapping with the stream index left out of the codec flag
copy_stream_mapping_unindexed(self, codec_type, stream_id) ==
    [self EXCEPT
        !.stream_mapping = @ \o <<"-map", map_specifier(codec_type, stream_id)>>,
        !.stream_encoding = @ \o <<"-c:" \o codec_type, "copy">>]

\* StreamMapper.__copy_stream_mapping(codec_type, stream_id)
copy_stream_mapping(self, codec_type, stream_id) ==
    [self EXCEPT
        !.stream_mapping = @ \o <<"-map", map_specifier(codec_type, stream_id)>>,
        !.stream_encoding = @ \o <<codec_specifier(codec_type, stream_id), "copy">>]

\* The values a custom_stream_mapping hook returns. None and a str are
\* [type |-> ..]; a dict is [type |-> "dict", stream_mapping, stream_encoding,
\* other], other saying whether it holds a key besides the two. A value
\* under a key is a list, List(items), or something that is not, NotAList.
List(items) == [list |-> TRUE, items |-> items]
NotAList == [list |-> FALSE]

Dict(stream_mapping, stream_encoding, other) ==
    [type |-> "dict", stream_mapping |-> stream_mapping,
     stream_encoding |-> stream_encoding, other |-> other]

MappingShapes ==
    {"none", "empty_dict", "string", "ok", "ok_empty_lists", "other_key_only",
     "no_mapping_key", "mapping_not_list", "no_encoding_key", "encoding_not_list"}

\* custom_stream_mapping(stream_info, stream_id) of a subclass, by the shape
\* of what it returns for a stream of the kind whose identifier is ident
custom_stream_mapping(shape, ident, stream_id) ==
    LET sm == Key(List(<<"-map", map_specifier(ident, stream_id)>>))
        se == Key(List(<<codec_specifier(ident, stream_id), "libx265",
                         "-preset", "slow">>))
    IN CASE shape = "none"              -> [type |-> "none"]
         [] shape = "string"            -> [type |-> "str"]
         [] shape = "empty_dict"        -> Dict(MissingKey, MissingKey, FALSE)
         [] shape = "other_key_only"    -> Dict(MissingKey, MissingKey, TRUE)
         [] shape = "ok"                -> Dict(sm, se, FALSE)
         [] shape = "ok_empty_lists"    -> Dict(Key(List(<<>>)), Key(List(<<>>)), FALSE)
         [] shape = "no_mapping_key"    -> Dict(MissingKey, se, FALSE)
         [] shape = "mapping_not_list"  -> Dict(Key(NotAList), se, FALSE)
         [] shape = "no_encoding_key"   -> Dict(sm, MissingKey, FALSE)
         [] shape = "encoding_not_list" -> Dict(sm, Key(NotAList), FALSE)

\* bool(mapping) of a hook's return value ("if mapping:")
mapping_truthy(mapping) ==
    CASE mapping.type = "none" -> FALSE
      [] mapping.type = "str"  -> TRUE
      [] mapping.type = "dict" ->
            \/ ~mapping.stream_mapping.missing
            \/ ~mapping.stream_encoding.missing
            \/ mapping.other

\* The checks of __apply_custom_stream_mapping: TRUE when one of them raises
apply_custom_stream_mapping_raises(mapping_dict) ==
    \/ mapping_dict.type # "dict"
    \/ mapping_dict.stream_mapping.missing
    \/ ~mapping_dict.stream_mapping.value.list
    \/ mapping_dict.stream_encoding.missing
    \/ ~mapping_dict.stream_encoding.value.list

\* apply_custom_stream_mapping with the two lists appended to each other's
\* attribute
apply_custom_stream_mapping_swapped(self, mapping_dict) ==
    IF apply_custom_stream_mapping_raises(mapping_dict)
    THEN self
    ELSE [self EXCEPT
            !.stream_mapping = @ \o mapping_dict.stream_encoding.value.items,
            !.stream_encoding = @ \o mapping_dict.stream_mapping.value.items]

\* apply_custom_stream_mapping with 'stream_mapping' appended as soon as it
\* has passed its own two checks, before 'stream_encoding' is checked
apply_custom_stream_mapping_eager(self, mapping_dict) ==
    IF \/ mapping_dict.type # "dict"
       \/ mapping_dict.stream_mapping.missing
       \/ ~mapping_dict.stream_mapping.value.list
    THEN self
    ELSE IF apply_custom_stream_mapping_raises(mapping_dict)
    THEN [self EXCEPT
            !.stream_mapping = @ \o mapping_dict.stream_mapping.value.items]
    ELSE [self EXCEPT
            !.stream_mapping = @ \o mapping_dict.stream_mapping.value.items,
            !.stream_encoding = @ \o mapping_dict.stream_encoding.value.items]

\* StreamMapper.__apply_custom_stream_mapping(mapping_dict): the instance
\* after the call, which is the instance as it was when a check raised
apply_custom_stream_mapping(self, mapping_dict) ==
    IF apply_custom_stream_mapping_raises(mapping_dict)
    THEN self
    ELSE [self EXCEPT
            !.stream_mapping = @ \o mapping_dict.stream_mapping.value.items,
            !.stream_encoding = @ \o mapping_dict.stream_encoding.value.items]

\* configured testing that any kind is configured, not this one
configured_any(self, codec_type) == self.processing_stream_type # {}

\* '"video" in processing_stream_type', for each of the five kinds
configured(self, codec_type) == codec_type \in self.processing_stream_type

\* advance_stream_count with video_stream_count advanced in every branch
advance_stream_count_video(self, codec_type) ==
    [self EXCEPT !.stream_count["video"] = @ + 1]

\* "self.video_stream_count += 1", for each of the five kinds
advance_stream_count(self, codec_type) ==
    [self EXCEPT !.stream_count[codec_type] = @ + 1]

\* found_streams_to_process set before "if mapping:"
found_streams_to_process_early(found, built, truthy) == found \/ built

\* found_streams_to_process after a stream: set in the "if mapping:" branch
found_streams_to_process(found, built, truthy) == found \/ (built /\ truthy)

\* One iteration of the loop of __set_stream_mapping, over stream_info, the
\* i-th stream of the probe. st is the pass so far: the instance,
\* found_streams_to_process, whether an exception has left the pass, and the
\* trace of what each iteration did. hook is what the hooks of the subclass
\* do for this stream: hook.needs is the value of
\* test_stream_needs_processing(stream_info), hook.shape the shape of the
\* value of custom_stream_mapping(stream_info, stream_id). In the trace,
\* tested and built say whether the two hooks were called, stream_id is the
\* counter of the kind as the iteration read it, and map_tokens and
\* enc_tokens are what the iteration appended to the two lists.
set_stream_mapping_step(st, stream_info, hook, i) ==
    LET self == st.self
        codec_type == lower(get_default(stream_info, "codec_type", ""))
    IN IF codec_type \notin StreamKinds
       THEN [st EXCEPT !.trace = Append(@,
                [index |-> i, codec_type |-> codec_type, tested |-> FALSE,
                 built |-> FALSE, stream_id |-> -1, raised |-> FALSE,
                 map_tokens |-> <<>>, enc_tokens |-> <<>>])]
       ELSE
        LET ident == stream_type_idents[codec_type]
            stream_id == self.stream_count[codec_type]
            tested == configured(self, codec_type)
            built == tested /\ hook.needs
            mapping == custom_stream_mapping(hook.shape, ident, stream_id)
            custom == built /\ mapping_truthy(mapping)
            raises == custom /\ apply_custom_stream_mapping_raises(mapping)
            mapped == IF custom
                      THEN apply_custom_stream_mapping(self, mapping)
                      ELSE copy_stream_mapping(self, ident, stream_id)
            after == IF raises THEN mapped
                     ELSE advance_stream_count(mapped, codec_type)
        IN [ self   |-> after,
             found  |-> found_streams_to_process(st.found, built,
                                                 mapping_truthy(mapping)),
             raised |-> raises,
             trace  |-> Append(st.trace,
                [index |-> i, codec_type |-> codec_type, tested |-> tested,
                 built |-> built, stream_id |-> stream_id, raised |-> raises,
                 map_tokens |-> SubSeq(after.stream_mapping,
                                       Len(self.stream_mapping) + 1,
                                       Len(after.stream_mapping)),
                 enc_tokens |-> SubSeq(after.stream_encoding,
                                       Len(self.stream_encoding) + 1,
                                       Len(after.stream_encoding))]) ]

\* The loop of __set_stream_mapping from the i-th stream on; an exception ends it
RECURSIVE set_stream_mapping_loop(_, _, _, _)
set_stream_mapping_loop(st, file_probe_streams, hooks, i) ==
    IF i > Len(file_probe_streams) \/ st.raised
    THEN st
    ELSE set_stream_mapping_loop(
            set_stream_mapping_step(st, file_probe_streams[i], hooks[i], i),
            file_probe_streams, hooks, i + 1)

\* "not file_probe_streams": None or an empty list
no_streams(file_probe_streams) ==
    file_probe_streams.none \/ Len(file_probe_streams.value) = 0

\* the lists and the counters left as the last pass left them
reset_stream_mapping_skipped(self) == self

\* "self.stream_mapping = []", "self.stream_encoding = []" and the five
\* "self.<kind>_stream_count = 0" at the start of a pass
reset_stream_mapping(self) ==
    [self EXCEPT !.directive_lists = "instance",
                 !.stream_mapping = <<>>,
                 !.stream_encoding = <<>>,
                 !.stream_count = ZeroCounts]

\* StreamMapper.__set_stream_mapping(): the instance afterwards, the value
\* returned, whether it raised, and the trace of the loop. self.probe.get
\* is Probe.get, which reads the probe_info of the Probe; a StreamMapper
\* whose probe is still None raises.
set_stream_mapping(self, hooks) ==
    IF self.probe.none
    THEN [self |-> self, ret |-> FALSE, raised |-> TRUE, trace |-> <<>>]
    ELSE
     LET file_probe_streams == get(self.probe.value, "streams")
     IN IF no_streams(file_probe_streams)
        THEN [self |-> self, ret |-> FALSE, raised |-> FALSE, trace |-> <<>>]
        ELSE
         LET reset == reset_stream_mapping(self)
             done == set_stream_mapping_loop(
                        [self |-> reset, found |-> FALSE, raised |-> FALSE,
                         trace |-> <<>>],
                        file_probe_streams.value, hooks, 1)
         IN [ self   |-> done.self,
              ret    |-> done.found,
              raised |-> done.raised,
              trace  |-> done.trace ]

\* StreamMapper.streams_need_processing()
streams_need_processing(self, hooks) == set_stream_mapping(self, hooks)

\* StreamMapper.get_stream_mapping() / get_stream_encoding(); attr names the
\* list: "if not self.<attr>: self.__set_stream_mapping()", "return self.<attr>"
get_stream_directives(self, attr, hooks) ==
    IF Len(self[attr]) = 0
    THEN LET r == set_stream_mapping(self, hooks)
         IN [r EXCEPT !.ret = r.self[attr]]
    ELSE [self |-> self, ret |-> self[attr], raised |-> FALSE, trace |-> <<>>]

\* StreamMapper.set_probe(probe): probe stands for the probe_info of the Probe
StreamMapper_set_probe(self, p) == [self EXCEPT !.probe = Some(p)]

(***************************************************************************)
(* StreamMapper: option groups, paths and the argument list.               *)
(***************************************************************************)
\* list.index(x): the first position of x
index(seq, x) ==
    CHOOSE i \in DOMAIN seq : seq[i] = x /\ \A j \in 1..(i - 1) : seq[j] # x

\* [value for value in options if value != arg]
without(options, arg) == SelectSeq(options, LAMBDA value : value # arg)

\* One iteration of "for arg in args" of __build_args. b.list is the list
\* object the caller passed, b.options the list the local name options is
\* bound to, b.aliased whether the two are the same object: "options += [x]"
\* extends the object in place, "options = [...]" binds the name to a new one.
build_args_arg(b, arg) ==
    IF arg \in Range(b.options)
    THEN [b EXCEPT !.options = without(b.options, arg) \o <<arg>>,
                   !.aliased = FALSE]
    ELSE [b EXCEPT !.options = @ \o <<arg>>,
                   !.list = IF b.aliased THEN @ \o <<arg>> ELSE @]

\* One iteration of "for kwarg in kwargs" of __build_args; kwarg is
\* <<key, value>>. options[val_pos] = value raises IndexError when key is the
\* last element of options.
build_args_kwarg(b, kwarg) ==
    LET key == kwarg[1]
        value == kwarg[2]
    IN IF key \in Range(b.options)
       THEN LET val_pos == index(b.options, key) + 1
            IN IF val_pos > Len(b.options)
               THEN [b EXCEPT !.raised = TRUE]
               ELSE [b EXCEPT !.options = [@ EXCEPT ![val_pos] = value],
                              !.list = IF b.aliased
                                       THEN [@ EXCEPT ![val_pos] = value]
                                       ELSE @]
       ELSE [b EXCEPT !.options = @ \o <<key, value>>,
                      !.list = IF b.aliased THEN @ \o <<key, value>> ELSE @]

\* The two loops of __build_args, args first; an exception ends them
RECURSIVE build_args_loop(_, _, _, _)
build_args_loop(b, args, kwargs, i) ==
    IF b.raised \/ i > Len(args) + Len(kwargs)
    THEN b
    ELSE build_args_loop(IF i <= Len(args)
                         THEN build_args_arg(b, args[i])
                         ELSE build_args_kwarg(b, kwargs[i - Len(args)]),
                         args, kwargs, i + 1)

\* StreamMapper.__build_args(options, *args, **kwargs): the list the caller
\* passed as it is after the call, and whether the call raised. kwargs is the
\* sequence of <<key, value>> pairs in the order of the call.
build_args(options, args, kwargs) ==
    LET b == build_args_loop([list |-> options, options |-> options,
                              aliased |-> TRUE, raised |-> FALSE],
                             args, kwargs, 1)
    IN [options |-> b.list, raised |-> b.raised]

\* set_ffmpeg_generic_options / set_ffmpeg_main_options /
\* set_ffmpeg_advanced_options(*args, **kwargs); group names the attribute
set_ffmpeg_options(self, group, args, kwargs) ==
    LET b == build_args(self[group], args, kwargs)
    IN [self |-> [self EXCEPT ![group] = b.options], ret |-> FALSE,
        raised |-> b.raised, trace |-> <<>>]

\* os.path.abspath(path) on the paths of the model; the working directory is /cwd
abspath(path) ==
    CASE path = ""          -> "/cwd"
      [] path = "movie.mkv" -> "/cwd/movie.mkv"
      [] path = "clip.MKV"  -> "/cwd/clip.MKV"
      [] path = "README"    -> "/cwd/README"
      [] path = "out.mp4"   -> "/cwd/out.mp4"
      [] path = "-"         -> "/cwd/-"
      [] OTHER              -> path

\* StreamMapper.set_input_file(path)
set_input_file(self, path) == [self EXCEPT !.input_file = abspath(path)]

\* StreamMapper.set_output_file(path)
set_output_file(self, path) == [self EXCEPT !.output_file = abspath(path)]

\* StreamMapper.set_output_null(), where os.name is os_name
set_output_null(self, os_name) ==
    LET out == [self EXCEPT !.output_file = IF os_name = "nt" THEN "NUL" ELSE "-"]
        b == build_args(out.main_options, <<>>, << <<"-f", "null">> >>)
    IN [self |-> [out EXCEPT !.main_options = b.options], ret |-> FALSE,
        raised |-> b.raised, trace |-> <<>>]

\* os.path.splitext(path) on the paths of the model: <<root, ext>>
splitext(path) ==
    CASE path = "/cwd/movie.mkv" -> <<"/cwd/movie", ".mkv">>
      [] path = "/cwd/clip.MKV"  -> <<"/cwd/clip", ".MKV">>
      [] path = "/cwd/out.mp4"   -> <<"/cwd/out", ".mp4">>
      [] OTHER                   -> <<path, "">>

\* the extension compared with its dots
lstrip_nothing(s) == s

\* str.lstrip('.') on the extensions of the model
lstrip_dots(s) ==
    CASE s = ".mkv"  -> "mkv"
      [] s = "..mkv" -> "mkv"
      [] s = ".MKV"  -> "MKV"
      [] s = ".mp4"  -> "mp4"
      [] s = "."     -> ""
      [] OTHER       -> s

\* StreamMapper.container_needs_remuxing(container_extension)
container_needs_remuxing(self, container_extension) ==
    IF self.input_file = ""
    THEN [self |-> self, ret |-> FALSE, raised |-> TRUE, trace |-> <<>>]
    ELSE LET split_file_in == splitext(self.input_file)
         IN [self |-> self,
             ret |-> lstrip_dots(split_file_in[2]) # lstrip_dots(container_extension),
             raised |-> FALSE, trace |-> <<>>]

\* get_ffmpeg_args without the test of the output file
get_ffmpeg_args_unchecked_output(self) ==
    LET args3 == self.generic_options \o self.main_options
                 \o <<"-i", self.input_file>> \o self.advanced_options
                 \o self.stream_mapping \o self.stream_encoding
    IN IF self.input_file = ""
       THEN [self |-> self, ret |-> <<>>, raised |-> TRUE, trace |-> <<>>]
       ELSE IF self.output_file = "-"
       THEN [self |-> self, ret |-> args3 \o <<self.output_file>>,
             raised |-> FALSE, trace |-> <<>>]
       ELSE [self |-> self, ret |-> args3 \o <<"-y", self.output_file>>,
             raised |-> FALSE, trace |-> <<>>]

\* get_ffmpeg_args with "args = self.generic_options" for "args = []": the
\* "+=" lines then extend the list of the instance
get_ffmpeg_args_aliased(self) ==
    LET args1 == self.generic_options \o self.main_options
        args2 == args1 \o <<"-i", self.input_file>>
        args3 == args2 \o self.advanced_options \o self.stream_mapping
                       \o self.stream_encoding
    IN IF self.input_file = ""
       THEN [self |-> [self EXCEPT !.generic_options = args1], ret |-> <<>>,
             raised |-> TRUE, trace |-> <<>>]
       ELSE IF self.output_file = ""
       THEN [self |-> [self EXCEPT !.generic_options = args3], ret |-> <<>>,
             raised |-> TRUE, trace |-> <<>>]
       ELSE IF self.output_file = "-"
       THEN [self |-> [self EXCEPT !.generic_options = args3 \o <<self.output_file>>],
             ret |-> args3 \o <<self.output_file>>,
             raised |-> FALSE, trace |-> <<>>]
       ELSE [self |-> [self EXCEPT !.generic_options =
                                      args3 \o <<"-y", self.output_file>>],
             ret |-> args3 \o <<"-y", self.output_file>>,
             raised |-> FALSE, trace |-> <<>>]

\* get_ffmpeg_args with the codec directives added before the selection directives
get_ffmpeg_args_encoding_first(self) ==
    LET args3 == self.generic_options \o self.main_options
                 \o <<"-i", self.input_file>> \o self.advanced_options
                 \o self.stream_encoding \o self.stream_mapping
    IN IF self.input_file = "" \/ self.output_file = ""
       THEN [self |-> self, ret |-> <<>>, raised |-> TRUE, trace |-> <<>>]
       ELSE IF self.output_file = "-"
       THEN [self |-> self, ret |-> args3 \o <<self.output_file>>,
             raised |-> FALSE, trace |-> <<>>]
       ELSE [self |-> self, ret |-> args3 \o <<"-y", self.output_file>>,
             raised |-> FALSE, trace |-> <<>>]

\* StreamMapper.get_ffmpeg_args(): the list returned, or the exception
get_ffmpeg_args(self) ==
    LET args1 == self.generic_options \o self.main_options
        args2 == args1 \o <<"-i", self.input_file>>
        args3 == args2 \o self.advanced_options \o self.stream_mapping
                       \o self.stream_encoding
    IN IF self.input_file = ""
       THEN [self |-> self, ret |-> <<>>, raised |-> TRUE, trace |-> <<>>]
       ELSE IF self.output_file = ""
       THEN [self |-> self, ret |-> <<>>, raised |-> TRUE, trace |-> <<>>]
       ELSE IF self.output_file = "-"
       THEN [self |-> self, ret |-> args3 \o <<self.output_file>>,
             raised |-> FALSE, trace |-> <<>>]
       ELSE [self |-> self, ret |-> args3 \o <<"-y", self.output_file>>,
             raised |-> FALSE, trace |-> <<>>]

(***************************************************************************)
(* ffprobe_cmd, ffprobe_file and Probe.                                    *)
(*                                                                         *)
(* The bytes a ffprobe process writes are modelled as a sequence of        *)
(* chunks: "{" and "}" open and close a JSON object, "streams" is a        *)
(* "streams" member, "error" is text holding the substring 'error' (an     *)
(* "error" member when inside an object), "\\xff" is a byte that is not    *)
(* UTF-8. A finished process is [returncode, out].                         *)
(***************************************************************************)
OutputChunks == {"{", "}", "streams", "error", "\\xff"}
ReturnCodes == {0, 1, 2}

Processes == [returncode : ReturnCodes, out : SeqUpTo(OutputChunks, MaxOutput)]

\* out.decode("utf-8")
decode(out) ==
    IF "\\xff" \in Range(out) THEN Raise("UnicodeDecodeError") ELSE Return(out)

\* ffprobe_cmd(params), pipe being the finished process
ffprobe_cmd(pipe) ==
    LET raw_output == decode(pipe.out)
    IN IF Raised(raw_output)
       THEN Raise("FFProbeError")
       ELSE IF pipe.returncode = 1 \/ "error" \in Range(raw_output.value)
       THEN Raise("FFProbeError")
       ELSE IF Len(raw_output.value) = 0
       THEN Raise("FFProbeError")
       ELSE Return(raw_output.value)

\* The streams a well-formed report lists
ReportedStreams ==
    <<[codec_type |-> Key("video")], [codec_type |-> Key("audio")]>>

\* json.loads(results): a well-formed report is one object; its "format"
\* member names the file that was probed
json_loads(results, vid_file_path) ==
    IF /\ Len(results) >= 2
       /\ results[1] = "{"
       /\ results[Len(results)] = "}"
       /\ \A i \in 2..(Len(results) - 1) : results[i] \notin {"{", "}"}
    THEN Return([format  |-> Key([filename |-> Key(vid_file_path)]),
                 streams |-> IF "streams" \in Range(results)
                             THEN Key(ReportedStreams) ELSE MissingKey])
    ELSE Raise("JSONDecodeError")

\* ffprobe_file with the json.loads call outside the try block
ffprobe_file_unguarded(vid_file_path, pipe) ==
    LET results == ffprobe_cmd(pipe)
    IN IF Raised(results)
       THEN results
       ELSE json_loads(results.value, vid_file_path)

\* ffprobe_file(vid_file_path), for a str path
ffprobe_file(vid_file_path, pipe) ==
    LET results == ffprobe_cmd(pipe)
    IN IF Raised(results)
       THEN results
       ELSE LET info == json_loads(results.value, vid_file_path)
            IN IF Raised(info) THEN Raise("FFProbeError") ELSE info

\* Probe.probe_info = {}
EmptyProbeInfo == [format |-> MissingKey, streams |-> MissingKey]

\* Probe.__init__(logger, allowed_mimetypes); allowed_mimetypes is None or a list
Probe_init(allowed_mimetypes) ==
    [ probe_info        |-> EmptyProbeInfo,
      allowed_mimetypes |-> IF allowed_mimetypes.none
                            THEN {"audio", "video", "image"}
                            ELSE allowed_mimetypes.value ]

\* mimetypes.guess_type(file_path)[0] on the paths of the model, as
\* <<category, subtype>>
guess_type(file_path) ==
    CASE file_path = "/library/movie.mkv" -> Some(<<"video", "x-matroska">>)
      [] file_path = "/library/song.mp3"  -> Some(<<"audio", "mpeg">>)
      [] file_path = "/library/notes.txt" -> Some(<<"text", "plain">>)
      [] OTHER                            -> NoneValue

\* Probe.__test_valid_mimetype(file_path)
test_valid_mimetype(self, file_path) ==
    LET file_type == guess_type(file_path)
    IN IF file_type.none
       THEN FALSE
       ELSE LET file_type_category == file_type.value[1]
            IN file_type_category \in self.allowed_mimetypes

\* ffprobe was not run
NotRun == [run |-> FALSE]
Ran(outcome) == [run |-> TRUE, outcome |-> outcome]

\* the probe_info left as it is at the start of Probe.file
clear_probe_info_skipped(self) == self

\* "self.probe_info = {}" at the start of Probe.file
clear_probe_info(self) == [self EXCEPT !.probe_info = EmptyProbeInfo]

\* Probe.file(file_path): exists is os.path.exists(file_path), pipe the
\* ffprobe process that runs if the probe gets that far. cmd is the outcome
\* of ffprobe_cmd, when it was called.
Probe_file(self, file_path, exists, pipe) ==
    LET cleared == clear_probe_info(self)
    IN IF ~exists
       THEN [self |-> cleared, out |-> ReturnNone, cmd |-> NotRun]
       ELSE IF ~test_valid_mimetype(cleared, file_path)
       THEN [self |-> cleared, out |-> ReturnNone, cmd |-> NotRun]
       ELSE LET info == ffprobe_file(file_path, pipe)
                cmd == Ran(ffprobe_cmd(pipe))
            IN IF ~Raised(info)
               THEN [self |-> [cleared EXCEPT !.probe_info = info.value],
                     out |-> Return(TRUE), cmd |-> cmd]
               ELSE IF info.exc = "FFProbeError"
               THEN [self |-> cleared, out |-> ReturnNone, cmd |-> cmd]
               ELSE [self |-> cleared, out |-> info, cmd |-> cmd]

\* probe_info.get('format', {}).get('filename')
EmptyDict == [filename |-> MissingKey]

\* Probe.set_probe without the content-type test of the filename
Probe_set_probe_unvalidated(self, probe_info) ==
    LET file_path == get(get_default(probe_info, "format", EmptyDict), "filename")
    IN IF file_path.none \/ file_path.value = ""
       THEN [self |-> self, out |-> ReturnNone, cmd |-> NotRun]
       ELSE [self |-> [self EXCEPT !.probe_info = probe_info],
             out |-> Return(probe_info), cmd |-> NotRun]

\* Probe.set_probe(probe_info)
Probe_set_probe(self, probe_info) ==
    LET file_path == get(get_default(probe_info, "format", EmptyDict), "filename")
    IN IF file_path.none \/ file_path.value = ""
       THEN [self |-> self, out |-> ReturnNone, cmd |-> NotRun]
       ELSE IF ~test_valid_mimetype(self, file_path.value)
       THEN [self |-> self, out |-> ReturnNone, cmd |-> NotRun]
       ELSE [self |-> [self EXCEPT !.probe_info = probe_info],
             out |-> Return(probe_info), cmd |-> NotRun]

\* Probe.get_probe()
Probe_get_probe(self) ==
    [self |-> self, out |-> Return(self.probe_info), cmd |-> NotRun]

\* data.get('shared_info', {}): a shared_info without 'ffprobe'
EmptySharedInfo == [ffprobe |-> MissingKey]

\* init_probe that returns the Probe of a fresh probe without storing its
\* probe_info in shared_info
init_probe_unshared(data_, allowed_mimetypes, exists, pipe) ==
    LET probe_ == Probe_init(allowed_mimetypes)
        ffprobe_data == get(get_default(data_, "shared_info", EmptySharedInfo),
                            "ffprobe")
        adopted == Probe_set_probe(probe_, ffprobe_data.value)
        probed == Probe_file(probe_, data_.path.value, exists, pipe)
    IN IF ~ffprobe_data.none
       THEN [data |-> data_,
             out |-> IF adopted.out.none THEN ReturnNone ELSE Return(adopted.self),
             cmd |-> NotRun]
       ELSE [data |-> data_,
             out |-> IF probed.out.none THEN ReturnNone ELSE Return(probed.self),
             cmd |-> probed.cmd]

\* init_probe that probes the file even when shared_info holds ffprobe data
\* that Probe.set_probe refused
init_probe_fallback(data_, allowed_mimetypes, exists, pipe) ==
    LET probe_ == Probe_init(allowed_mimetypes)
        ffprobe_data == get(get_default(data_, "shared_info", EmptySharedInfo),
                            "ffprobe")
        adopted == Probe_set_probe(probe_, ffprobe_data.value)
        probed == Probe_file(probe_, data_.path.value, exists, pipe)
    IN IF ~ffprobe_data.none /\ ~adopted.out.none
       THEN [data |-> data_, out |-> Return(adopted.self), cmd |-> NotRun]
       ELSE IF probed.out.none
       THEN [data |-> data_, out |-> ReturnNone, cmd |-> probed.cmd]
       ELSE [data |-> [data_ EXCEPT !.shared_info =
                          Key([ffprobe |-> Key(Probe_get_probe(probed.self).out.value)])],
             out |-> Return(probed.self), cmd |-> probed.cmd]

\* Probe.init_probe(data, logger, allowed_mimetypes): the data object after
\* the call, the Probe returned (or None), and the ffprobe run if there was
\* one. The probe_info dicts of the model are never empty, so "if
\* ffprobe_data" is the test that the key is there.
init_probe(data_, allowed_mimetypes, exists, pipe) ==
    LET probe_ == Probe_init(allowed_mimetypes)
        ffprobe_data == get(get_default(data_, "shared_info", EmptySharedInfo),
                            "ffprobe")
    IN IF ~ffprobe_data.none
       THEN LET adopted == Probe_set_probe(probe_, ffprobe_data.value)
            IN IF adopted.out.none
               THEN [data |-> data_, out |-> ReturnNone, cmd |-> NotRun]
               ELSE [data |-> data_, out |-> Return(adopted.self), cmd |-> NotRun]
       ELSE LET probed == Probe_file(probe_, data_.path.value, exists, pipe)
            IN IF Raised(probed.out)
               THEN [data |-> data_, out |-> probed.out, cmd |-> probed.cmd]
               ELSE IF probed.out.none
               THEN [data |-> data_, out |-> ReturnNone, cmd |-> probed.cmd]
               ELSE [data |-> [data_ EXCEPT !.shared_info =
                                  Key([ffprobe |->
                                         Key(Probe_get_probe(probed.self).out.value)])],
                     out |-> Return(probed.self), cmd |-> probed.cmd]

(***************************************************************************)
(* The plugin: file_has_metadata and the file-test runner.                 *)
(*                                                                         *)
(* A dict whose keys the code iterates (the tags of a stream, the entries  *)
(* of the format) is the set of its <<key, value>> pairs, no key twice. A  *)
(* probed stream is [codec_type, codec_name, pix_fmt, tags], the format is *)
(* [filename, tags].                                                       *)
(***************************************************************************)
\* the pairs <<sub, s>> of the strings of the model where s contains sub and
\* is longer
ProperSubstrings ==
    { <<"hevc", "x265 hevc">>,
      <<"pix_fmt", "source_pix_fmt">>,
      <<"yuv420p", "yuv420p10le">> }

\* "sub in s" for two str
in_str(sub, s) == sub = s \/ <<sub, s>> \in ProperSubstrings

\* d.update(e): the entries of e replace those of d with the same key
update(d, e) == {p \in d : \A q \in e : q[1] # p[1]} \cup e

\* [s for s in probe_streams if "codec_type" in s and s["codec_type"] == kind]
streams_of(probe_streams, kind) ==
    SelectSeq(probe_streams,
              LAMBDA s : ~s.codec_type.missing /\ s.codec_type.value = kind)

\* [(k, v) for (k, v) in kv.items()
\*  if (metadata_key in k.lower() and metadata_value in v)]
matching(kv, metadata_key, metadata_value) ==
    {p \in kv : in_str(metadata_key, lower(p[1])) /\ in_str(metadata_value, p[2])}

\* {k: v for i in range(0, len(streams)) for (k, v) in streams[i]["tags"].items()}:
\* KeyError at the first stream without "tags"
RECURSIVE tags_kv(_)
tags_kv(streams) ==
    IF Len(streams) = 0
    THEN Return({})
    ELSE LET before == tags_kv(SubSeq(streams, 1, Len(streams) - 1))
             last == streams[Len(streams)]
         IN IF Raised(before)
            THEN before
            ELSE IF last.tags.missing
            THEN Raise("KeyError")
            ELSE Return(update(before.value, last.tags.value))

\* file_has_metadata_key_ast, _vst, _aust: truthy or not
tags_have_metadata(probe_streams, kind, metadata_key, metadata_value) ==
    LET probe_tags_kv == tags_kv(streams_of(probe_streams, kind))
    IN IF Raised(probe_tags_kv)
       THEN FALSE
       ELSE matching(probe_tags_kv.value, metadata_key, metadata_value) # {}

\* probe_format_kv: the entries of the format that are not dicts, updated
\* with the entries of those that are
format_kv(probe_format) ==
    update({<<"filename", probe_format.filename.value>>},
           IF probe_format.tags.missing THEN {} ELSE probe_format.tags.value)

\* file_has_metadata that looks at the attributes of the video streams only
file_has_metadata_streams_only(probe_streams, probe_format, metadata_key, metadata_value) ==
    LET streams == streams_of(probe_streams, "video")
    IN \E i \in DOMAIN streams :
          /\ ~streams[i][metadata_key].missing
          /\ in_str(metadata_value, streams[i][metadata_key].value)

\* file_has_metadata(path, probe_streams, probe_format, metadata_key,
\* metadata_value)
file_has_metadata(probe_streams, probe_format, metadata_key, metadata_value) ==
    LET streams == streams_of(probe_streams, "video")
        file_has_metadata_key ==
            \E i \in DOMAIN streams :
                /\ ~streams[i][metadata_key].missing
                /\ in_str(metadata_value, streams[i][metadata_key].value)
        file_has_metadata_key_fmt ==
            matching(format_kv(probe_format), metadata_key, metadata_value) # {}
        file_has_metadata_key_ast ==
            tags_have_metadata(probe_streams, "attachment", metadata_key, metadata_value)
        file_has_metadata_key_vst ==
            tags_have_metadata(probe_streams, "video", metadata_key, metadata_value)
        file_has_metadata_key_aust ==
            tags_have_metadata(probe_streams, "audio", metadata_key, metadata_value)
    IN \/ file_has_metadata_key
       \/ file_has_metadata_key_fmt
       \/ file_has_metadata_key_ast
       \/ file_has_metadata_key_vst
       \/ file_has_metadata_key_aust

\* what ffprobe reported, as the runner reads it: probe_info says whether the
\* report has a "streams" member, report what the streams and the tags of
\* the format are
reported(probe_info, report) ==
    [ format  |-> Key([filename |-> probe_info.format.value.filename,
                       tags     |-> report.format_tags]),
      streams |-> IF probe_info.streams.missing
                  THEN MissingKey ELSE Key(report.streams) ]

\* on_library_management_file_test(data): exists, pipe and report are what
\* the probe of data['path'] meets. The data object after the call, the
\* outcome of the call and the ffprobe run if there was one.
on_library_management_file_test(data_, exists, pipe, report) ==
    LET path == data_.path.value
        probe_data == Probe_init(Some({"video"}))
        probed == Probe_file(probe_data, path, exists, pipe)
        blocked == [data_ EXCEPT !.add_file_to_pending_tasks = FALSE]
    IN IF Raised(probed.out)
       THEN [data |-> data_, out |-> probed.out, cmd |-> probed.cmd]
       ELSE IF probed.out.none
       THEN [data |-> blocked, out |-> ReturnNone, cmd |-> probed.cmd]
       ELSE LET probe_info == reported(Probe_get_probe(probed.self).out.value, report)
            IN IF probe_info.streams.missing
               THEN [data |-> data_, out |-> Raise("KeyError"), cmd |-> probed.cmd]
               ELSE LET probe_streams == probe_info.streams.value
                        probe_format == probe_info.format.value
                        is_hevc == file_has_metadata(probe_streams, probe_format,
                                                     "codec_name", "hevc")
                        is_h264 == file_has_metadata(probe_streams, probe_format,
                                                     "codec_name", "h264")
                        is_ten_bit == file_has_metadata(probe_streams, probe_format,
                                                        "pix_fmt", "yuv420p10le")
                    IN [data |-> IF (is_hevc \/ is_h264) /\ ~is_ten_bit
                                 THEN blocked ELSE data_,
                        out |-> ReturnNone, cmd |-> probed.cmd]

(***************************************************************************)
(* The inputs of the operations.                                           *)
(***************************************************************************)
\* codec_type of a probed stream; MissingKey: the stream has no codec_type
CodecTypes == {"video", "Video", "audio", "unknown"}

StreamInfos == {[codec_type |-> c] : c \in {MissingKey} \cup {Key(t) : t \in CodecTypes}}

Stream(codec_type) == [codec_type |-> Key(codec_type)]

\* The probe_info of the Probe a StreamMapper is given
ProbeInfoOf(streams) ==
    [format |-> Key([filename |-> Key("/library/movie.mkv")]), streams |-> streams]

Probes ==
    {ProbeInfoOf(s) : s \in {MissingKey} \cup
                            {Key(l) : l \in SeqUpTo(StreamInfos, MaxStreams)}}

\* The probe of the second instance
OneStream == ProbeInfoOf(Key(<<Stream("audio")>>))

\* The probe of the argument-list specification
TwoStreams == ProbeInfoOf(Key(<<Stream("audio"), Stream("video")>>))

\* The probe of the mapping-shapes specification
ThreeStreams == ProbeInfoOf(Key(<<Stream("video"), Stream("audio"), Stream("Video")>>))

\* The probes of the specification that replaces the probe between passes:
\* without 'streams', with an empty list, with one stream, with two
FewProbes ==
    { ProbeInfoOf(MissingKey),
      ProbeInfoOf(Key(<<>>)),
      ProbeInfoOf(Key(<<Stream("video")>>)),
      ProbeInfoOf(Key(<<Stream("audio"), Stream("video")>>)),
      ProbeInfoOf(Key(<<Stream("video"), Stream("Video")>>)) }

\* processing_stream_type arguments of the constructor
ProcessingChoices == {{}, {"video"}, {"audio"}}

\* What the hooks of the subclass may do during one pass of the instance: one
\* choice per stream. A stream whose kind is not configured never reaches a
\* hook, so it gets the one choice.
NoHook == [needs |-> FALSE, shape |-> "none"]

HookOutcomes(shapes) ==
    {NoHook} \cup {[needs |-> TRUE, shape |-> s] : s \in shapes}

HookChoices(self, shapes) ==
    IF self.probe.none \/ no_streams(get(self.probe.value, "streams"))
    THEN {<<>>}
    ELSE LET streams == self.probe.value.streams.value
         IN {h \in [1..Len(streams) -> HookOutcomes(shapes)] :
               \A i \in 1..Len(streams) :
                  lower(get_default(streams[i], "codec_type", ""))
                        \notin self.processing_stream_type
                     => h[i] = NoHook}

\* the shapes of the mapping-pass specification
PassShapes == {"none", "ok", "no_encoding_key"}

\* *args and **kwargs of the set_ffmpeg_*_options calls
PositionalTokens == {"-hide_banner", "-y"}
NamedKeys == {"-loglevel", "-y"}
NamedValues == {"quiet"}

ArgsChoices == SeqUpTo(PositionalTokens, MaxArgs)

KwargsChoices ==
    {kw \in SeqUpTo(NamedKeys \X NamedValues, MaxKwargs) :
        \A i, j \in DOMAIN kw : i # j => kw[i][1] # kw[j][1]}

\* the calls of the argument-list specification
FewArgs == {<<>>, <<"-y">>}
FewKwargs == {<<>>, << <<"-loglevel", "quiet">> >>}

InputPaths == {"movie.mkv"}

\* the input files and the container extensions of the remux specification
RemuxPaths == {"movie.mkv", "clip.MKV", "README"}
ContainerExtensions == {"mkv", ".mkv", "..mkv", "MKV", "mp4", ""}
OutputPaths == {"/cache/out.mp4"}

\* number of tokens in the three option groups
TotalOptions(self) ==
    Len(self.generic_options) + Len(self.main_options) + Len(self.advanced_options)

ProbePaths ==
    {"/library/movie.mkv", "/library/song.mp3", "/library/notes.txt", "/library/README"}

AllowedChoices == {NoneValue, Some({"video"})}

\* probe_info dicts handed to Probe.set_probe
Blobs ==
    {[format |-> f, streams |-> Key(<<Stream("subtitle")>>)] :
        f \in {MissingKey, Key([filename |-> MissingKey]), Key([filename |-> Key("")])}
              \cup {Key([filename |-> Key(p)]) : p \in ProbePaths}}

\* the data objects of the plugin runners: the path of the file and,
\* possibly, a shared_info that possibly holds ffprobe data
SharedPaths == {"/library/movie.mkv", "/library/song.mp3", "/library/notes.txt"}

SharedInfos ==
    {MissingKey, Key(EmptySharedInfo)} \cup {Key([ffprobe |-> Key(b)]) : b \in Blobs}

Datas == [path : {Key(p) : p \in SharedPaths}, shared_info : SharedInfos]

\* the ffprobe processes of the shared-data specification: a report with
\* streams, a report without, an error exit, no output
SharedProcesses ==
    { [returncode |-> 0, out |-> <<"{", "streams", "}">>],
      [returncode |-> 0, out |-> <<"{", "}">>],
      [returncode |-> 1, out |-> <<"error">>],
      [returncode |-> 0, out |-> <<>>] }

\* a probed stream as the runner reads it; "" stands for a key that is
\* not there, tags is MissingKey or Key(dict)
ProbedStream(codec_type, codec_name, pix_fmt, tags) ==
    [ codec_type |-> IF codec_type = "" THEN MissingKey ELSE Key(codec_type),
      codec_name |-> IF codec_name = "" THEN MissingKey ELSE Key(codec_name),
      pix_fmt    |-> IF pix_fmt = "" THEN MissingKey ELSE Key(pix_fmt),
      tags       |-> tags ]

ProbedStreams ==
    { ProbedStream("video", "hevc", "yuv420p", MissingKey),
      ProbedStream("video", "hevc", "yuv420p10le", MissingKey),
      ProbedStream("video", "h264", "yuv420p", Key({<<"language", "eng">>})),
      ProbedStream("video", "mpeg2video", "yuv420p", Key({<<"language", "eng">>})),
      ProbedStream("audio", "aac", "", MissingKey),
      ProbedStream("audio", "aac", "", Key({<<"CODEC_NAME", "x265 hevc">>})),
      ProbedStream("audio", "aac", "", Key({<<"CODEC_NAME", "aac">>})),
      ProbedStream("", "hevc", "yuv420p", MissingKey),
      ProbedStream("attachment", "ttf", "", Key({<<"filename", "font.ttf">>})) }

FormatTags ==
    {MissingKey, Key({<<"encoder", "x265 hevc">>}),
     Key({<<"source_pix_fmt", "yuv420p10le">>})}

\* what a ffprobe report of the file-test specification holds
Reports == [streams : SeqUpTo(ProbedStreams, MaxProbed), format_tags : FormatTags]

NoReport == [streams |-> <<>>, format_tags |-> MissingKey]

\* the data objects of the file test
TestDatas ==
    [path : {Key(p) : p \in SharedPaths}, add_file_to_pending_tasks : BOOLEAN]

NoInitProbeCall == [op |-> "init", in |-> <<>>, pre |-> <<>>,
                    out |-> ReturnNone, cmd |-> NotRun]

NoData == [path |-> MissingKey, shared_info |-> MissingKey]

NoCall == [op |-> "init", in |-> <<>>, pre |-> <<>>,
           ret |-> FALSE, raised |-> FALSE, trace |-> <<>>]

NoProbeCall == [op |-> "init", in |-> <<>>, pre |-> EmptyProbeInfo,
                out |-> ReturnNone, cmd |-> NotRun]

(***************************************************************************)
(* The operations of a StreamMapper.                                       *)
(***************************************************************************)
\* the three option groups of a StreamMapper
OptionGroups == {"generic_options", "main_options", "advanced_options"}

\* the flags that are given a value, by the defaults of the class or by a call
ValueFlags == {"-loglevel", "-strict", "-max_muxing_queue_size", "-f"} \cup NamedKeys

\* the values the defaults of the class give to flags ("": none)
DefaultAssigned ==
    [g \in OptionGroups |->
        [f \in ValueFlags |->
            CASE g = "generic_options" /\ f = "-loglevel" -> "info"
              [] g = "advanced_options" /\ f = "-strict" -> "-2"
              [] g = "advanced_options" /\ f = "-max_muxing_queue_size" -> "4096"
              [] OTHER -> ""]]

\* the values the flags were last given, after the call op(in) with outcome
\* r: a set_ffmpeg_*_options call that returns gives each of its **kwargs
\* keys its value, a set_output_null call that returns gives '-f' 'null'
assign(was, op, in, r) ==
    IF r.raised THEN was
    ELSE IF op \in OptionGroups
    THEN [was EXCEPT ![op] =
            [f \in ValueFlags |->
                IF \E i \in DOMAIN in.kwargs : in.kwargs[i][1] = f
                THEN in.kwargs[CHOOSE i \in DOMAIN in.kwargs : in.kwargs[i][1] = f][2]
                ELSE @[f]]]
    ELSE IF op = "set_output_null"
    THEN [was EXCEPT !["main_options"]["-f"] = "null"]
    ELSE was

\* the lists of the class after a call that left the instance self: "+="
\* extends a list in place, so what an instance whose lists are those of the
\* class holds is what the class holds
class_lists_after(klass_, self) ==
    IF self.directive_lists = "class"
    THEN [stream_mapping |-> self.stream_mapping,
          stream_encoding |-> self.stream_encoding]
    ELSE klass_

\* an instance as it reads its attributes when the class holds klass_
seen_by(self, klass_) ==
    IF self.directive_lists = "class"
    THEN [self EXCEPT !.stream_mapping = klass_.stream_mapping,
                      !.stream_encoding = klass_.stream_encoding]
    ELSE self

\* the call op(in) with outcome r was made on the StreamMapper; pre is what
\* the call record keeps of the instance before the call
Called(op, in, pre, r) ==
    /\ mapper' = r.self
    /\ klass' = class_lists_after(klass, r.self)
    /\ peer' = seen_by(peer, class_lists_after(klass, r.self))
    /\ call' = [op |-> op, in |-> in, pre |-> pre, ret |-> r.ret,
                raised |-> r.raised, trace |-> r.trace]
    /\ assigned' = assign(assigned, op, in, r)
    /\ UNCHANGED <<probe, pcall, established, data, icall>>

Plain(self) == [self |-> self, ret |-> FALSE, raised |-> FALSE, trace |-> <<>>]

SetProbe(probes) ==
    \E p \in probes :
        Called("set_probe", p, <<>>, Plain(StreamMapper_set_probe(mapper, p)))

StreamsNeedProcessing(shapes) ==
    \E hooks \in HookChoices(mapper, shapes) :
        Called("streams_need_processing", hooks, <<>>,
               streams_need_processing(mapper, hooks))

GetStreamMapping(shapes) ==
    \E hooks \in HookChoices(mapper, shapes) :
        Called("get_stream_mapping", hooks, <<>>,
               get_stream_directives(mapper, "stream_mapping", hooks))

GetStreamEncoding(shapes) ==
    \E hooks \in HookChoices(mapper, shapes) :
        Called("get_stream_encoding", hooks, <<>>,
               get_stream_directives(mapper, "stream_encoding", hooks))

SetOptions(group, argsChoices, kwargsChoices) ==
    \E args \in argsChoices, kwargs \in kwargsChoices :
        LET r == set_ffmpeg_options(mapper, group, args, kwargs)
        IN /\ TotalOptions(r.self) <= MaxOptions
           /\ Called(group, [args |-> args, kwargs |-> kwargs], mapper, r)

SetGenericOptions(argsChoices, kwargsChoices) ==
    SetOptions("generic_options", argsChoices, kwargsChoices)

SetMainOptions(argsChoices, kwargsChoices) ==
    SetOptions("main_options", argsChoices, kwargsChoices)

SetAdvancedOptions(argsChoices, kwargsChoices) ==
    SetOptions("advanced_options", argsChoices, kwargsChoices)

SetInputFile ==
    \E path \in InputPaths :
        Called("set_input_file", path, <<>>, Plain(set_input_file(mapper, path)))

SetRemuxInputFile ==
    \E path \in RemuxPaths :
        Called("set_input_file", path, <<>>, Plain(set_input_file(mapper, path)))

ContainerNeedsRemuxing ==
    \E container_extension \in ContainerExtensions :
        Called("container_needs_remuxing", container_extension, mapper,
               container_needs_remuxing(mapper, container_extension))

SetOutputFile ==
    \E path \in OutputPaths :
        Called("set_output_file", path, <<>>, Plain(set_output_file(mapper, path)))

SetOutputNull ==
    \E os_name \in {"posix", "nt"} :
        LET r == set_output_null(mapper, os_name)
        IN /\ TotalOptions(r.self) <= MaxOptions
           /\ Called("set_output_null", os_name, mapper, r)

GetFfmpegArgs == Called("get_ffmpeg_args", <<>>, mapper, get_ffmpeg_args(mapper))

\* The caller turns to its other StreamMapper instance
Switch ==
    /\ mapper' = peer
    /\ peer' = mapper
    /\ call' = [NoCall EXCEPT !.op = "switch"]
    /\ UNCHANGED <<klass, assigned, probe, pcall, established, data, icall>>

(***************************************************************************)
(* The operations of a Probe.                                              *)
(***************************************************************************)
\* a Probe.file or Probe.set_probe call that succeeded
Succeeded(op, out) == op \in {"file", "set_probe"} /\ ~Raised(out) /\ ~out.none

\* the call op(in) with outcome r was made on the Probe
ProbeCalled(op, in, r) ==
    /\ probe' = r.self
    /\ pcall' = [op |-> op, in |-> in, pre |-> probe.probe_info, out |-> r.out,
                 cmd |-> r.cmd]
    /\ established' = IF Succeeded(op, r.out) THEN r.self.probe_info ELSE established
    /\ UNCHANGED <<mapper, call, data, icall, assigned, peer, klass>>

\* the process of a call that does not reach ffprobe
NoProcess == [returncode |-> 0, out |-> <<>>]

File ==
    \E file_path \in ProbePaths, exists \in BOOLEAN :
        \E pipe \in IF exists /\ test_valid_mimetype(probe, file_path)
                    THEN Processes ELSE {NoProcess} :
            ProbeCalled("file",
                        [file_path |-> file_path, exists |-> exists, pipe |-> pipe],
                        Probe_file(probe, file_path, exists, pipe))

Adopt ==
    \E blob \in Blobs :
        ProbeCalled("set_probe", blob, Probe_set_probe(probe, blob))

GetProbe == ProbeCalled("get_probe", <<>>, Probe_get_probe(probe))

\* A plugin runner calls Probe.init_probe(data, logger, allowed_mimetypes)
InitProbeCalled ==
    \E allowed \in AllowedChoices, exists \in BOOLEAN :
        \E pipe \in IF /\ get(get_default(data, "shared_info", EmptySharedInfo),
                              "ffprobe").none
                       /\ exists
                       /\ test_valid_mimetype(Probe_init(allowed), data.path.value)
                    THEN SharedProcesses ELSE {NoProcess} :
            LET r == init_probe(data, allowed, exists, pipe)
            IN /\ data' = r.data
               /\ icall' = [op |-> "init_probe",
                            in |-> [allowed |-> allowed, exists |-> exists,
                                    pipe |-> pipe],
                            pre |-> data, out |-> r.out, cmd |-> r.cmd]
               /\ UNCHANGED <<mapper, call, probe, pcall, established, assigned, peer, klass>>

\* The library file test calls the runner on the data object of a file,
\* once
FileTest ==
    /\ icall.op = "init"
    /\ \E exists \in BOOLEAN :
        \E pipe \in IF /\ exists
                       /\ test_valid_mimetype(Probe_init(Some({"video"})),
                                              data.path.value)
                    THEN SharedProcesses ELSE {NoProcess} :
            \E report \in IF ~Probe_file(Probe_init(Some({"video"})), data.path.value,
                                         exists, pipe).self.probe_info.streams.missing
                          THEN Reports ELSE {NoReport} :
                LET r == on_library_management_file_test(data, exists, pipe, report)
                IN /\ data' = r.data
                   /\ icall' = [op |-> "file_test",
                                in |-> [exists |-> exists, pipe |-> pipe,
                                        report |-> report],
                                pre |-> data, out |-> r.out, cmd |-> r.cmd]
                   /\ UNCHANGED <<mapper, call, probe, pcall, established, assigned, peer, klass>>

(***************************************************************************)
(* Specifications.                                                         *)
(***************************************************************************)
PeerIdle ==
    /\ peer = StreamMapper_init({})
    /\ klass = ClassLists

SharedIdle ==
    /\ data = NoData
    /\ icall = NoInitProbeCall

ProbeIdle ==
    /\ probe = Probe_init(NoneValue)
    /\ pcall = NoProbeCall
    /\ established = EmptyProbeInfo
    /\ SharedIdle

MapperIdle ==
    /\ mapper = StreamMapper_init({})
    /\ call = NoCall
    /\ assigned = DefaultAssigned
    /\ PeerIdle

\* The mapping pass of a StreamMapper over the probe it is given
InitPass ==
    /\ \E pst \in ProcessingChoices : mapper = StreamMapper_init(pst)
    /\ call = NoCall
    /\ assigned = DefaultAssigned
    /\ PeerIdle
    /\ ProbeIdle

NextPass ==
    \/ /\ mapper.probe.none
       /\ SetProbe(Probes)
    \/ StreamsNeedProcessing(PassShapes)

SpecPass == InitPass /\ [][NextPass]_vars

\* The option groups of a StreamMapper
InitOptions ==
    /\ mapper = StreamMapper_init({"video"})
    /\ call = NoCall
    /\ assigned = DefaultAssigned
    /\ PeerIdle
    /\ ProbeIdle

NextOptions ==
    \/ SetGenericOptions(ArgsChoices, KwargsChoices)
    \/ SetMainOptions(ArgsChoices, KwargsChoices)
    \/ SetAdvancedOptions(ArgsChoices, KwargsChoices)
    \/ SetOutputNull

SpecOptions == InitOptions /\ [][NextOptions]_vars

\* The argument list of a StreamMapper
InitArgs ==
    /\ mapper = StreamMapper_set_probe(StreamMapper_init({"video"}), TwoStreams)
    /\ call = NoCall
    /\ assigned = DefaultAssigned
    /\ PeerIdle
    /\ ProbeIdle

NextArgs ==
    \/ StreamsNeedProcessing({"ok"})
    \/ SetGenericOptions(FewArgs, FewKwargs)
    \/ SetMainOptions(FewArgs, FewKwargs)
    \/ SetAdvancedOptions(FewArgs, FewKwargs)
    \/ SetInputFile
    \/ SetOutputFile
    \/ SetOutputNull
    \/ GetFfmpegArgs

SpecArgs == InitArgs /\ [][NextArgs]_vars

\* A Probe
InitProbe ==
    /\ \E allowed \in AllowedChoices : probe = Probe_init(allowed)
    /\ pcall = NoProbeCall
    /\ established = EmptyProbeInfo
    /\ MapperIdle
    /\ SharedIdle

NextProbe ==
    \/ File
    \/ Adopt
    \/ GetProbe

SpecProbe == InitProbe /\ [][NextProbe]_vars

\* The data object of one file, handed to one plugin runner after another
InitShared ==
    /\ data \in Datas
    /\ icall = NoInitProbeCall
    /\ MapperIdle
    /\ probe = Probe_init(NoneValue)
    /\ pcall = NoProbeCall
    /\ established = EmptyProbeInfo

NextShared == InitProbeCalled

SpecShared == InitShared /\ [][NextShared]_vars

\* The mapping pass with hooks that return mappings of every shape
InitShapes ==
    /\ mapper = StreamMapper_set_probe(StreamMapper_init({"video"}), ThreeStreams)
    /\ call = NoCall
    /\ assigned = DefaultAssigned
    /\ PeerIdle
    /\ ProbeIdle

NextShapes ==
    \/ StreamsNeedProcessing(MappingShapes)
    \/ GetStreamMapping(MappingShapes)
    \/ GetStreamEncoding(MappingShapes)

SpecShapes == InitShapes /\ [][NextShapes]_vars

\* The paths of a StreamMapper, the remux test and the argument list
InitRemux ==
    /\ mapper = StreamMapper_init({"video"})
    /\ call = NoCall
    /\ assigned = DefaultAssigned
    /\ PeerIdle
    /\ ProbeIdle

NextRemux ==
    \/ SetRemuxInputFile
    \/ SetOutputFile
    \/ SetOutputNull
    \/ ContainerNeedsRemuxing
    \/ GetFfmpegArgs

SpecRemux == InitRemux /\ [][NextRemux]_vars

\* Mapping passes of one StreamMapper whose probe is replaced between them
InitReplace ==
    /\ \E pst \in ProcessingChoices : mapper = StreamMapper_init(pst)
    /\ call = NoCall
    /\ assigned = DefaultAssigned
    /\ PeerIdle
    /\ ProbeIdle

NextReplace ==
    \/ SetProbe(FewProbes)
    \/ StreamsNeedProcessing({"none", "ok"})

SpecReplace == InitReplace /\ [][NextReplace]_vars

\* Two StreamMapper instances, each with its own probe, used in turn
InitTwo ==
    /\ mapper = StreamMapper_set_probe(StreamMapper_init({"video"}), TwoStreams)
    /\ peer = StreamMapper_set_probe(StreamMapper_init({"audio"}), OneStream)
    /\ klass = ClassLists
    /\ call = NoCall
    /\ assigned = DefaultAssigned
    /\ ProbeIdle

NextTwo ==
    \/ StreamsNeedProcessing({"ok"})
    \/ SetMainOptions({<<"-y">>}, {<<>>})
    \/ SetInputFile
    \/ SetOutputFile
    \/ SetOutputNull
    \/ GetFfmpegArgs
    \/ Switch

SpecTwo == InitTwo /\ [][NextTwo]_vars

\* The file test of one file
InitRunner ==
    /\ data \in TestDatas
    /\ icall = NoInitProbeCall
    /\ MapperIdle
    /\ probe = Probe_init(NoneValue)
    /\ pcall = NoProbeCall
    /\ established = EmptyProbeInfo

NextRunner == FileTest

SpecRunner == InitRunner /\ [][NextRunner]_vars

(***************************************************************************)
(* The mapping pass: claims C1 to C4, checked under SpecPass.              *)
(***************************************************************************)
\* a streams_need_processing call that got to the loop over the streams
PassRan == call.op = "streams_need_processing" /\ Len(call.trace) > 0

\* the streams of the pass, and the case-folded codec_type of the i-th one
PassStreams == mapper.probe.value.streams.value

FoldedType(i) ==
    LET s == PassStreams[i]
    IN IF s.codec_type.missing THEN ""
       ELSE CASE s.codec_type.value \in {"video", "Video", "VIDEO"} -> "video"
              [] s.codec_type.value \in {"audio", "Audio"} -> "audio"
              [] OTHER -> s.codec_type.value

RecognizedKinds == {"video", "audio", "subtitle", "data", "attachment"}

\* the number of streams before the i-th one with the same case-folded codec_type
Preceding(i) == Cardinality({j \in 1..(i - 1) : FoldedType(j) = FoldedType(i)})

KindIdent(kind) ==
    CASE kind = "video" -> "v" [] kind = "audio" -> "a" [] kind = "subtitle" -> "s"
      [] kind = "data" -> "d" [] kind = "attachment" -> "t"

\* the copy directive of the n-th stream of a kind
CopySelection(kind, n) == <<"-map", "0:" \o KindIdent(kind) \o ":" \o ToString(n)>>
CopyCodec(kind, n) == <<"-c:" \o KindIdent(kind) \o ":" \o ToString(n), "copy">>

IsCopy(e) ==
    /\ e.map_tokens = CopySelection(FoldedType(e.index), Preceding(e.index))
    /\ e.enc_tokens = CopyCodec(FoldedType(e.index), Preceding(e.index))

\* the shapes of a hook result that is not empty
NonEmptyShapes == MappingShapes \ {"none", "empty_dict"}

\* the hook choices of the pass for the i-th stream
PassHook(i) == call.in[i]

\* C1: in a mapping pass, the ordinal the pass uses for a stream of a
\* recognized kind (the counter it reads, the ordinal in the stream's copy
\* directive, the ordinal handed to custom_stream_mapping and so in the tokens
\* a well-formed mapping names) is the number of earlier streams of the same
\* case-folded codec_type, whatever branch the earlier streams took.
C1_OrdinalIsPrecedingCount ==
    PassRan =>
        \A k \in DOMAIN call.trace :
            LET e == call.trace[k]
                kind == FoldedType(k)
            IN /\ e.index = k
               /\ kind \in RecognizedKinds =>
                    /\ e.stream_id = Preceding(k)
                    /\ ~e.raised =>
                         \/ IsCopy(e)
                         \/ /\ e.built
                            /\ PassHook(k).shape = "ok"
                            /\ e.map_tokens = CopySelection(kind, Preceding(k))

\* C1 witness: a third stream of a kind got ordinal 2 after one earlier stream
\* of the kind was custom-mapped and another opted out, with a stream of
\* another kind between them
C1_Witness ==
    /\ PassRan /\ ~call.raised
    /\ Len(call.trace) >= 3
    /\ \E a, b, c \in DOMAIN call.trace :
          /\ a < b /\ b < c
          /\ FoldedType(a) = "video" /\ FoldedType(c) = "video"
          /\ FoldedType(b) # "video"
          /\ call.trace[a].built /\ PassHook(a).shape = "ok"
          /\ call.trace[c].stream_id = 1
          /\ call.trace[c].built /\ PassHook(c).shape = "none"

\* C2: a stream of a recognized kind that is not configured for processing
\* reaches neither hook and gets exactly the copy directive with its ordinal.
C2_UnconfiguredIsCopied ==
    PassRan =>
        \A k \in DOMAIN call.trace :
            (/\ FoldedType(k) \in RecognizedKinds
             /\ FoldedType(k) \notin mapper.processing_stream_type)
            => /\ ~call.trace[k].tested
               /\ ~call.trace[k].built
               /\ IsCopy(call.trace[k])

\* C2 witness: an unconfigured second audio stream copied in a pass that
\* processes video
C2_Witness ==
    /\ PassRan
    /\ mapper.processing_stream_type = {"video"}
    /\ \E k \in DOMAIN call.trace :
          /\ FoldedType(k) = "audio"
          /\ Preceding(k) = 1
          /\ call.trace[k].map_tokens = <<"-map", "0:a:1">>
          /\ call.trace[k].enc_tokens = <<"-c:a:1", "copy">>

\* C3: a stream of a configured kind for which test_stream_needs_processing
\* returns false gets the copy directive and never reaches
\* custom_stream_mapping, which is called only after the test returned true.
C3_NotNeededIsCopied ==
    PassRan =>
        \A k \in DOMAIN call.trace :
            LET e == call.trace[k]
            IN /\ (/\ FoldedType(k) \in mapper.processing_stream_type
                   /\ ~PassHook(k).needs)
                  => e.tested /\ ~e.built /\ IsCopy(e)
               /\ e.built => e.tested /\ PassHook(k).needs

\* C3 witness: a configured stream tested false and copied, after one that
\* tested true and was mapped
C3_Witness ==
    /\ PassRan
    /\ \E j, k \in DOMAIN call.trace :
          /\ j < k
          /\ call.trace[j].built /\ PassHook(j).shape = "ok"
          /\ FoldedType(k) \in mapper.processing_stream_type
          /\ ~PassHook(k).needs
          /\ call.trace[k].tested
          /\ call.trace[k].map_tokens = <<"-map", "0:v:1">>

\* a stream of the pass that was configured, tested true and whose
\* custom_stream_mapping returned something non-empty
Mapped(k) ==
    /\ FoldedType(k) \in mapper.processing_stream_type
    /\ PassHook(k).needs
    /\ PassHook(k).shape \in NonEmptyShapes

\* C4: a pass that returns, returns true exactly when some stream was
\* configured, tested true and got a non-empty custom mapping; a pass over no
\* streams returns false.
C4_ReturnsTrueIffMapped ==
    (call.op = "streams_need_processing" /\ ~call.raised) =>
        (call.ret <=> (PassRan /\ \E k \in DOMAIN call.trace : Mapped(k)))

\* C4 witness: a pass in which a stream tested true and opted out returned false
C4_Witness ==
    /\ PassRan /\ ~call.raised /\ ~call.ret
    /\ \E k \in DOMAIN call.trace :
          /\ call.trace[k].built
          /\ PassHook(k).shape = "none"
          /\ IsCopy(call.trace[k])

(***************************************************************************)
(* The argument list: claim C5, checked under SpecArgs.                    *)
(***************************************************************************)
DiscardTargets == {"-", "NUL"}

\* C5: with the input and output paths set, get_ffmpeg_args returns the
\* generic options, the main options, '-i' and the input path, the advanced
\* options, the selection directives, the codec directives and then the
\* output, which for a real output path is '-y' and the path: every
\* selection token precedes every codec token, and both lie between the
\* advanced options and the output.
C5_ArgumentOrder ==
    (/\ call.op = "get_ffmpeg_args"
     /\ mapper.input_file # ""
     /\ mapper.output_file # "")
    => LET head == mapper.generic_options \o mapper.main_options
                   \o <<"-i", mapper.input_file>> \o mapper.advanced_options
                   \o mapper.stream_mapping \o mapper.stream_encoding
           n == Len(call.ret)
       IN /\ ~call.raised
          /\ SubSeq(call.ret, 1, Len(head)) = head
          /\ call.ret[n] = mapper.output_file
          /\ mapper.output_file \notin DiscardTargets
                => call.ret = head \o <<"-y", mapper.output_file>>
          /\ mapper.output_file \in DiscardTargets
                => n \in {Len(head) + 1, Len(head) + 2}

\* C5 witness: an argument list with main options, the directives of a pass
\* that mapped the video stream, and a real output path
C5_Witness ==
    /\ call.op = "get_ffmpeg_args" /\ ~call.raised
    /\ mapper.main_options # <<>>
    /\ mapper.stream_mapping = <<"-map", "0:a:0", "-map", "0:v:0">>
    /\ mapper.stream_encoding =
          <<"-c:a:0", "copy", "-c:v:0", "libx265", "-preset", "slow">>
    /\ mapper.output_file = "/cache/out.mp4"
    /\ call.ret[Len(call.ret) - 1] = "-y"

(***************************************************************************)
(* The option groups: claims C6 and C7, checked under SpecOptions.         *)
(***************************************************************************)
\* a sequence without the occurrences of a token
Removed(seq, token) == SelectSeq(seq, LAMBDA t : t # token)

\* a group after each positional token, in turn, is moved or added to its end
RECURSIVE MovedToEnd(_, _)
MovedToEnd(group, tokens) ==
    IF tokens = <<>> THEN group
    ELSE MovedToEnd(Removed(group, Head(tokens)) \o <<Head(tokens)>>, Tail(tokens))

\* C6: a set_ffmpeg_*_options call with positional tokens leaves each of
\* them in the group exactly once, behind the tokens that were there: a token
\* that was present is moved to the end, one that was not is added at the
\* end, and the further tokens of the call are applied too. (Stated for the
\* calls with positional tokens only.)
C6_PositionalMovesToEnd ==
    (/\ call.op \in OptionGroups
     /\ call.in.kwargs = <<>>)
    => /\ ~call.raised
       /\ mapper[call.op] = MovedToEnd(call.pre[call.op], call.in.args)

\* C7: a set_ffmpeg_*_options call with one named pair and no positional
\* token: if the flag is in the group, the token after its first occurrence
\* becomes the value and nothing else changes; if it is not, the group gains
\* flag and value at its end.
C7_NamedReplacesOrAppends ==
    (/\ call.op \in OptionGroups
     /\ call.in.args = <<>>
     /\ Len(call.in.kwargs) = 1)
    => LET before == call.pre[call.op]
           after == mapper[call.op]
           flag == call.in.kwargs[1][1]
           value == call.in.kwargs[1][2]
       IN /\ ~call.raised
          /\ IF \E i \in DOMAIN before : before[i] = flag
             THEN LET first == CHOOSE i \in DOMAIN before :
                                  /\ before[i] = flag
                                  /\ \A j \in DOMAIN before : before[j] = flag => i <= j
                  IN /\ first < Len(before)
                     /\ Len(after) = Len(before)
                     /\ after[first + 1] = value
                     /\ \A i \in DOMAIN before : i # first + 1 => after[i] = before[i]
             ELSE after = before \o <<flag, value>>

(***************************************************************************)
(* The Probe: claims C8 to C10, checked under SpecProbe.                   *)
(***************************************************************************)
\* the call failed: it returned None
Failed == ~Raised(pcall.out) /\ pcall.out.none

\* C8 as claimed: get_probe returns the probe_info the last successful file
\* or set_probe call established (empty if none has), whatever failed since;
\* a failed file or set_probe call leaves the probe_info as it was; and
\* get_probe itself changes nothing.
C8_CurrentResultIsLastEstablished ==
    /\ pcall.op = "get_probe" =>
          /\ pcall.out.value = established
          /\ probe.probe_info = pcall.pre
    /\ (pcall.op \in {"file", "set_probe"} /\ Failed) =>
          probe.probe_info = pcall.pre

\* C8 as amended: every file call first empties the probe_info, so get_probe
\* returns the probe_info the last successful file or set_probe call
\* established, or an empty one once a file call has failed since (or none
\* has succeeded); a failed set_probe call leaves it as it was; get_probe
\* returns it unchanged, so two get_probe calls in a row return the same.
C8_CurrentResultUnlessProbeFailed ==
    /\ probe.probe_info \in {established, EmptyProbeInfo}
    /\ (pcall.op \in {"file", "set_probe"} /\ ~Failed /\ ~Raised(pcall.out)) =>
          probe.probe_info = established
    /\ (pcall.op = "file" /\ Failed) => probe.probe_info = EmptyProbeInfo
    /\ (pcall.op = "set_probe" /\ Failed) => probe.probe_info = pcall.pre
    /\ pcall.op = "get_probe" =>
          /\ pcall.out.value = pcall.pre
          /\ probe.probe_info = pcall.pre

\* C8 witness: a file call failed on a Probe that held a result, and emptied it
C8_Witness ==
    /\ pcall.op = "file" /\ Failed
    /\ pcall.pre # EmptyProbeInfo
    /\ pcall.pre = established
    /\ probe.probe_info = EmptyProbeInfo

\* the content-type category of the paths of the model ("" when there is none)
CategoryOf(file_path) ==
    CASE file_path = "/library/movie.mkv" -> "video"
      [] file_path = "/library/song.mp3"  -> "audio"
      [] file_path = "/library/notes.txt" -> "text"
      [] OTHER                            -> ""

\* the output of the process is decodable and one JSON object
WellFormed(out) ==
    /\ \A i \in DOMAIN out : out[i] # "\\xff"
    /\ Len(out) >= 2
    /\ out[1] = "{" /\ out[Len(out)] = "}"
    /\ \A i \in 2..(Len(out) - 1) : out[i] \notin {"{", "}"}

\* C9: Probe.file never raises, whatever the file, its content type and the
\* outcome of the ffprobe process; it returns True only when the file
\* exists, its category is allowed and the process wrote well-formed output,
\* and None otherwise.
C9_FileNeverRaises ==
    pcall.op = "file" =>
        /\ ~Raised(pcall.out)
        /\ ~pcall.out.none =>
              /\ pcall.out.value = TRUE
              /\ pcall.in.exists
              /\ CategoryOf(pcall.in.file_path) \in probe.allowed_mimetypes
              /\ WellFormed(pcall.in.pipe.out)
        /\ (\/ ~pcall.in.exists
            \/ CategoryOf(pcall.in.file_path) \notin probe.allowed_mimetypes
            \/ ~WellFormed(pcall.in.pipe.out)) => pcall.out.none

\* C9 witness: ffprobe ran on an allowed, existing file, exited with 0 and
\* wrote text that is not JSON; the call returned None
C9_Witness ==
    /\ pcall.op = "file" /\ Failed
    /\ pcall.in.exists
    /\ pcall.cmd.run /\ ~Raised(pcall.cmd.outcome)
    /\ pcall.in.pipe.returncode = 0
    /\ pcall.in.pipe.out = <<"streams">>

\* C10: ffprobe_cmd fails exactly when the output is not UTF-8, the exit
\* status is not zero, the output holds 'error', or the output is empty.
C10_FailedInvocation ==
    (pcall.op = "file" /\ pcall.cmd.run) =>
        LET pipe == pcall.in.pipe
        IN Raised(pcall.cmd.outcome) <=>
              \/ \E i \in DOMAIN pipe.out : pipe.out[i] = "\\xff"
              \/ pipe.returncode # 0
              \/ \E i \in DOMAIN pipe.out : pipe.out[i] = "error"
              \/ Len(pipe.out) = 0

(***************************************************************************)
(* The discarded output: claim C11, checked under SpecArgs.                *)
(***************************************************************************)
\* C11: whatever os.name was when set_output_null set the output to the
\* discard target ('-', or 'NUL' on nt), get_ffmpeg_args ends with the
\* discard target alone, with no '-y' added before it, and main_options has
\* '-f' immediately followed by 'null'.
C11_DiscardTargetIsBare ==
    (/\ call.op = "get_ffmpeg_args"
     /\ ~call.raised
     /\ mapper.output_file \in DiscardTargets)
    => /\ call.ret = mapper.generic_options \o mapper.main_options
                     \o <<"-i", mapper.input_file>> \o mapper.advanced_options
                     \o mapper.stream_mapping \o mapper.stream_encoding
                     \o <<mapper.output_file>>
       /\ \E i \in 1..(Len(mapper.main_options) - 1) :
             /\ mapper.main_options[i] = "-f"
             /\ mapper.main_options[i + 1] = "null"

(***************************************************************************)
(* Probe.set_probe: claim C12, checked under SpecProbe.                    *)
(***************************************************************************)
\* the dict has format.filename, and it is not empty
HasFilename(blob) ==
    /\ ~blob.format.missing
    /\ ~blob.format.value.filename.missing
    /\ blob.format.value.filename.value # ""

\* C12: Probe.set_probe(probe_info) never runs ffprobe and never raises. If
\* format.filename is present and not empty and the category of its content
\* type is allowed, it makes probe_info the Probe's probe_info and returns
\* it; otherwise it returns None and the Probe's probe_info is what it was.
C12_AdoptValidatesOnly ==
    pcall.op = "set_probe" =>
        /\ ~pcall.cmd.run
        /\ ~Raised(pcall.out)
        /\ IF /\ HasFilename(pcall.in)
              /\ CategoryOf(pcall.in.format.value.filename.value)
                    \in probe.allowed_mimetypes
           THEN /\ ~pcall.out.none
                /\ pcall.out.value = pcall.in
                /\ probe.probe_info = pcall.in
           ELSE /\ pcall.out.none
                /\ probe.probe_info = pcall.pre

\* C12 witness: a dict whose filename has a category that is not allowed was
\* refused by a Probe that held the result of an earlier call
C12_Witness ==
    /\ pcall.op = "set_probe" /\ Failed
    /\ HasFilename(pcall.in)
    /\ pcall.in.format.value.filename.value = "/library/song.mp3"
    /\ pcall.pre # EmptyProbeInfo
    /\ probe.probe_info = pcall.pre

(***************************************************************************)
(* Probe.init_probe and the shared data: claims C13 and C14, checked under *)
(* SpecShared.                                                             *)
(***************************************************************************)
\* the ffprobe data of a data object, if it has any
HasSlot(d) == ~d.shared_info.missing /\ ~d.shared_info.value.ffprobe.missing
Slot(d) == d.shared_info.value.ffprobe.value

\* C13: an init_probe call on a data object without ffprobe data either
\* returns a Probe, and then the data object holds as its ffprobe data the
\* probe_info of that Probe, which is the report of the file of the data
\* object; or returns None, and then the data object is as it was, without
\* ffprobe data.
C13_FreshProbeIsShared ==
    (icall.op = "init_probe" /\ ~HasSlot(icall.pre)) =>
        /\ ~Raised(icall.out)
        /\ data.path = icall.pre.path
        /\ IF icall.out.none
           THEN data = icall.pre
           ELSE /\ icall.cmd.run
                /\ HasSlot(data)
                /\ Slot(data) = icall.out.value.probe_info
                /\ HasFilename(Slot(data))
                /\ Slot(data).format.value.filename.value = data.path.value

\* C13 witness: a data object without shared_info was probed, and holds the
\* report with its streams
C13_Witness ==
    /\ icall.op = "init_probe"
    /\ icall.pre.shared_info.missing
    /\ ~icall.out.none
    /\ HasSlot(data)
    /\ ~Slot(data).streams.missing

\* C14: an init_probe call on a data object that holds ffprobe data never
\* runs ffprobe and leaves the data object as it is; it returns a Probe with
\* that data as probe_info exactly when the data has a non-empty
\* format.filename whose content-type category is allowed for this caller,
\* and None otherwise.
C14_SharedDataIsNeverReprobed ==
    (icall.op = "init_probe" /\ HasSlot(icall.pre)) =>
        /\ ~icall.cmd.run
        /\ ~Raised(icall.out)
        /\ data = icall.pre
        /\ IF /\ HasFilename(Slot(icall.pre))
              /\ CategoryOf(Slot(icall.pre).format.value.filename.value)
                    \in Probe_init(icall.in.allowed).allowed_mimetypes
           THEN /\ ~icall.out.none
                /\ icall.out.value.probe_info = Slot(icall.pre)
           ELSE icall.out.none

\* C14 witness: the ffprobe data is of an audio file, the caller allows video
\* only and the file of the data object exists and is a video: no Probe
C14_Witness ==
    /\ icall.op = "init_probe"
    /\ HasSlot(icall.pre)
    /\ HasFilename(Slot(icall.pre))
    /\ Slot(icall.pre).format.value.filename.value = "/library/song.mp3"
    /\ icall.pre.path.value = "/library/movie.mkv"
    /\ icall.in.exists
    /\ icall.in.allowed = Some({"video"})
    /\ icall.out.none

(***************************************************************************)
(* The mapping pass: claims C15 and C17, checked under SpecPass.           *)
(***************************************************************************)
\* what the custom_stream_mapping of the model returns, when well-formed, for
\* the n-th stream of a kind
ProducerSelection(kind, n) == <<"-map", "0:" \o KindIdent(kind) \o ":" \o ToString(n)>>
ProducerCodec(kind, n) ==
    <<"-c:" \o KindIdent(kind) \o ":" \o ToString(n), "libx265", "-preset", "slow">>

\* the tokens the k-th stream of a pass that returns is to add to the two lists
ExpectedSelection(k) ==
    IF FoldedType(k) \notin RecognizedKinds THEN <<>>
    ELSE IF Mapped(k) THEN ProducerSelection(FoldedType(k), Preceding(k))
    ELSE CopySelection(FoldedType(k), Preceding(k))

ExpectedCodec(k) ==
    IF FoldedType(k) \notin RecognizedKinds THEN <<>>
    ELSE IF Mapped(k) THEN ProducerCodec(FoldedType(k), Preceding(k))
    ELSE CopyCodec(FoldedType(k), Preceding(k))

RECURSIVE ExpectedSelections(_)
ExpectedSelections(k) ==
    IF k = 0 THEN <<>> ELSE ExpectedSelections(k - 1) \o ExpectedSelection(k)

RECURSIVE ExpectedCodecs(_)
ExpectedCodecs(k) ==
    IF k = 0 THEN <<>> ELSE ExpectedCodecs(k - 1) \o ExpectedCodec(k)

\* C15: a stream for which custom_stream_mapping returns a well-formed,
\* non-empty mapping adds exactly the mapping's 'stream_mapping' tokens to
\* stream_mapping and exactly its 'stream_encoding' tokens to
\* stream_encoding, in their order, and no copy directive; after a pass that
\* returns, the two lists are the tokens of the streams in the order of the
\* streams.
C15_CustomMappingIsAppended ==
    PassRan =>
        /\ \A k \in DOMAIN call.trace :
              (Mapped(k) /\ PassHook(k).shape = "ok") =>
                 LET e == call.trace[k]
                 IN /\ e.built /\ ~e.raised
                    /\ e.map_tokens = ProducerSelection(FoldedType(k), Preceding(k))
                    /\ e.enc_tokens = ProducerCodec(FoldedType(k), Preceding(k))
                    /\ e.enc_tokens # CopyCodec(FoldedType(k), Preceding(k))
        /\ ~call.raised =>
              /\ Len(call.trace) = Len(PassStreams)
              /\ mapper.stream_mapping = ExpectedSelections(Len(PassStreams))
              /\ mapper.stream_encoding = ExpectedCodecs(Len(PassStreams))

\* C15 witness: the second of three streams was custom-mapped between two
\* copied ones
C15_Witness ==
    /\ PassRan /\ ~call.raised
    /\ Len(call.trace) = 3
    /\ Mapped(2) /\ PassHook(2).shape = "ok"
    /\ FoldedType(1) = "audio" /\ FoldedType(3) = "video"
    /\ IsCopy(call.trace[1]) /\ IsCopy(call.trace[3])
    /\ Len(mapper.stream_encoding) = 8
    /\ SubSeq(mapper.stream_encoding, 3, 6) = call.trace[2].enc_tokens

\* the positions of the streams of a recognized kind, in order
KeptIndices ==
    SelectSeq([i \in 1..Len(PassStreams) |-> i],
              LAMBDA i : FoldedType(i) \in RecognizedKinds)

\* the pass of a new StreamMapper over the streams of a recognized kind only,
\* with the same hooks for them
PassOverKept ==
    LET kept == KeptIndices
        streams == [j \in 1..Len(kept) |-> PassStreams[kept[j]]]
        hooks == [j \in 1..Len(kept) |-> PassHook(kept[j])]
        fresh == StreamMapper_set_probe(
                    StreamMapper_init(mapper.processing_stream_type),
                    [mapper.probe.value EXCEPT !.streams = Key(streams)])
    IN set_stream_mapping(fresh, hooks)

\* C17: a stream whose codec_type is missing or, case-folded, none of the
\* five kinds reaches no hook, adds no token and advances no counter; the
\* lists, the counters and the outcome of the pass are those of the pass over
\* the other streams alone.
C17_UnrecognizedIsPassedOver ==
    PassRan =>
        /\ \A k \in DOMAIN call.trace :
              FoldedType(k) \notin RecognizedKinds =>
                 LET e == call.trace[k]
                 IN /\ ~e.tested /\ ~e.built /\ ~e.raised
                    /\ e.map_tokens = <<>>
                    /\ e.enc_tokens = <<>>
        /\ ~call.raised =>
              \A kind \in RecognizedKinds :
                 mapper.stream_count[kind] =
                    Cardinality({k \in DOMAIN call.trace : FoldedType(k) = kind})
        /\ PassOverKept.self.stream_mapping = mapper.stream_mapping
        /\ PassOverKept.self.stream_encoding = mapper.stream_encoding
        /\ PassOverKept.self.stream_count = mapper.stream_count
        /\ PassOverKept.ret = call.ret
        /\ PassOverKept.raised = call.raised

\* C17 witness: a stream of no recognized kind between two video streams, the
\* second of which is custom-mapped with ordinal 1
C17_Witness ==
    /\ PassRan /\ ~call.raised
    /\ Len(call.trace) = 3
    /\ FoldedType(1) = "video" /\ FoldedType(3) = "video"
    /\ FoldedType(2) \notin RecognizedKinds
    /\ call.trace[2].map_tokens = <<>>
    /\ Mapped(3) /\ PassHook(3).shape = "ok"
    /\ call.trace[3].map_tokens = <<"-map", "0:v:1">>

(***************************************************************************)
(* Malformed mappings: claim C16, checked under SpecShapes.                *)
(***************************************************************************)
\* a call that ran the mapping pass as far as the loop over the streams
AnyPassRan ==
    /\ call.op \in {"streams_need_processing", "get_stream_mapping",
                    "get_stream_encoding"}
    /\ Len(call.trace) > 0

\* the shapes of a hook result that is not empty and is not a dict with a
\* list under 'stream_mapping' and a list under 'stream_encoding'
MalformedShapes ==
    {"string", "other_key_only", "no_mapping_key", "mapping_not_list",
     "no_encoding_key", "encoding_not_list"}

\* the k-th stream is configured, tested true and got a malformed mapping
Malformed(k) ==
    /\ FoldedType(k) \in mapper.processing_stream_type
    /\ PassHook(k).needs
    /\ PassHook(k).shape \in MalformedShapes

\* C16: the pass raises at the first stream for which custom_stream_mapping
\* returns a non-empty value that is not a dict with both lists, and at no
\* other stream; that stream adds no token to stream_mapping and none to
\* stream_encoding.
C16_MalformedMappingRaises ==
    AnyPassRan =>
        /\ \A k \in DOMAIN call.trace :
              LET e == call.trace[k]
              IN /\ e.raised <=> Malformed(k)
                 /\ e.raised =>
                       /\ call.raised
                       /\ k = Len(call.trace)
                       /\ e.built
                       /\ e.map_tokens = <<>>
                       /\ e.enc_tokens = <<>>
        /\ call.raised => call.trace[Len(call.trace)].raised

\* C16 witness: after a custom-mapped and a copied stream, the third stream's
\* mapping has a list under 'stream_mapping' and no 'stream_encoding'; the
\* pass raised with the tokens of the first two streams only
C16_Witness ==
    /\ AnyPassRan /\ call.raised
    /\ Len(call.trace) = 3
    /\ PassHook(1).shape = "ok" /\ call.trace[1].built
    /\ PassHook(3).shape = "no_encoding_key"
    /\ call.trace[3].map_tokens = <<>>
    /\ mapper.stream_mapping = <<"-map", "0:v:0", "-map", "0:a:0">>
    /\ mapper.stream_encoding =
          <<"-c:v:0", "libx265", "-preset", "slow", "-c:a:0", "copy">>

(***************************************************************************)
(* Flags and their values: claim C18, checked under SpecOptions.           *)
(***************************************************************************)
\* C18: after any sequence of set_ffmpeg_*_options and set_output_null calls
\* on a new StreamMapper, each flag that was given a value (by the defaults
\* or by a call) is in its group, immediately followed by the value it was
\* last given.
C18_FlagIsFollowedByItsValue ==
    \A g \in OptionGroups :
        \A f \in ValueFlags :
            assigned[g][f] # "" =>
                \E i \in 1..(Len(mapper[g]) - 1) :
                    /\ mapper[g][i] = f
                    /\ mapper[g][i + 1] = assigned[g][f]

(***************************************************************************)
(* Paths that are not set, and the remux test: claims C19 and C20, checked *)
(* under SpecRemux.                                                        *)
(***************************************************************************)
\* C19: get_ffmpeg_args raises when input_file is not set, and when
\* input_file is set and output_file is not; container_needs_remuxing raises
\* when input_file is not set. The call then returns nothing, and the
\* instance (option groups, directive lists, paths) is as it was.
C19_UnsetPathsRaise ==
    /\ (/\ call.op = "get_ffmpeg_args"
        /\ (call.pre.input_file = "" \/ call.pre.output_file = ""))
       => call.raised /\ mapper = call.pre
    /\ (/\ call.op = "container_needs_remuxing"
        /\ call.pre.input_file = "")
       => call.raised /\ mapper = call.pre
    /\ (/\ call.op \in {"get_ffmpeg_args", "container_needs_remuxing"}
        /\ call.pre.input_file # ""
        /\ call.op = "get_ffmpeg_args" => call.pre.output_file # "")
       => ~call.raised /\ mapper = call.pre

\* C19 witness: get_ffmpeg_args raised on an instance with an input file and
\* no output file, and left it as it was
C19_Witness ==
    /\ call.op = "get_ffmpeg_args"
    /\ call.raised
    /\ call.pre.input_file = "/cwd/clip.MKV"
    /\ call.pre.output_file = ""
    /\ mapper = call.pre

\* the extension of the input files of the model, without its dot
InputExtension ==
    CASE mapper.input_file = "/cwd/movie.mkv" -> "mkv"
      [] mapper.input_file = "/cwd/clip.MKV"  -> "MKV"
      [] OTHER                                -> ""

\* a requested extension without its leading dots
WithoutLeadingDots(ext) ==
    CASE ext \in {".mkv", "..mkv"} -> "mkv"
      [] OTHER -> ext

\* C20 as claimed: with input_file set, container_needs_remuxing returns
\* False exactly when the extension of input_file without its dot is the
\* requested extension, letter for letter, and True for every other
\* requested extension.
C20_RemuxUnlessSameExtension ==
    (call.op = "container_needs_remuxing" /\ ~call.raised) =>
        (call.ret = FALSE <=> InputExtension = call.in)

\* C20 as amended: the requested extension is compared without its leading
\* dots too: container_needs_remuxing returns False exactly when the
\* extension of input_file without its dot is the requested extension
\* without its leading dots, letter for letter, and True otherwise.
C20_RemuxUnlessSameBareExtension ==
    (call.op = "container_needs_remuxing" /\ ~call.raised) =>
        /\ mapper.input_file # ""
        /\ call.ret = FALSE <=> InputExtension = WithoutLeadingDots(call.in)

\* C20 witness: '.mkv' requested for movie.mkv: no remux
C20_Witness ==
    /\ call.op = "container_needs_remuxing" /\ ~call.raised
    /\ mapper.input_file = "/cwd/movie.mkv"
    /\ call.in = ".mkv"
    /\ call.ret = FALSE

(***************************************************************************)
(* Repeated passes: claim C21, checked under SpecPass.                     *)
(***************************************************************************)
\* the pass that has just run, run once more on the same instance with the
\* same hooks, and run on a new instance with the same probe and hooks
SamePassAgain == set_stream_mapping(mapper, call.in)

SamePassOnNew ==
    set_stream_mapping(
        StreamMapper_set_probe(StreamMapper_init(mapper.processing_stream_type),
                               mapper.probe.value),
        call.in)

\* C21: a pass over the same probe with the same hooks gives the same
\* stream_mapping, stream_encoding, counters, return value and exception,
\* whether it is run again on the instance that has just run it or on a new
\* instance: the second pass starts from empty lists and counters at zero.
C21_PassIsRepeatable ==
    (call.op = "streams_need_processing" /\ ~mapper.probe.none) =>
        /\ SamePassAgain.self.stream_mapping = mapper.stream_mapping
        /\ SamePassAgain.self.stream_encoding = mapper.stream_encoding
        /\ SamePassAgain.self.stream_count = mapper.stream_count
        /\ SamePassAgain.ret = call.ret
        /\ SamePassAgain.raised = call.raised
        /\ SamePassOnNew.self.stream_mapping = mapper.stream_mapping
        /\ SamePassOnNew.self.stream_encoding = mapper.stream_encoding
        /\ SamePassOnNew.self.stream_count = mapper.stream_count
        /\ SamePassOnNew.ret = call.ret
        /\ SamePassOnNew.raised = call.raised

\* C21 witness: a pass over three streams that custom-mapped one of them and
\* left six selection tokens and a counter at 2
C21_Witness ==
    /\ PassRan /\ ~call.raised /\ call.ret
    /\ Len(call.trace) = 3
    /\ Len(mapper.stream_mapping) = 6
    /\ \E kind \in RecognizedKinds : mapper.stream_count[kind] = 2

(***************************************************************************)
(* A replaced probe: claim C22, checked under SpecReplace.                 *)
(***************************************************************************)
\* C22: after a pass that returns, the two lists hold the tokens of the
\* streams of the probe the instance has now, and nothing else; when that
\* probe has no 'streams' or an empty list the pass returns False and the
\* two lists are empty, whatever an earlier pass over another probe left.
C22_DirectivesOfLastProbeOnly ==
    (call.op = "streams_need_processing" /\ ~call.raised) =>
        IF \/ mapper.probe.value.streams.missing
           \/ Len(mapper.probe.value.streams.value) = 0
        THEN /\ call.ret = FALSE
             /\ mapper.stream_mapping = <<>>
             /\ mapper.stream_encoding = <<>>
        ELSE /\ mapper.stream_mapping = ExpectedSelections(Len(PassStreams))
             /\ mapper.stream_encoding = ExpectedCodecs(Len(PassStreams))

(***************************************************************************)
(* The argument list is read-only: claim C23, checked under SpecArgs.      *)
(***************************************************************************)
\* C23: get_ffmpeg_args leaves the instance as it was (the three option
\* groups, the two lists, the counters, the two paths), calls no hook and
\* runs no pass, and called again at once returns the same list.
C23_ArgumentListIsReadOnly ==
    call.op = "get_ffmpeg_args" =>
        /\ mapper = call.pre
        /\ call.trace = <<>>
        /\ get_ffmpeg_args(mapper).raised = call.raised
        /\ get_ffmpeg_args(mapper).ret = call.ret
        /\ get_ffmpeg_args(mapper).self = mapper

\* C23 witness: the probe has streams and no pass has run: the list returned
\* has no directive, and the lists of the instance are still empty
C23_Witness ==
    /\ call.op = "get_ffmpeg_args" /\ ~call.raised
    /\ ~mapper.probe.none
    /\ Len(mapper.probe.value.streams.value) = 2
    /\ mapper.stream_mapping = <<>>
    /\ mapper.stream_encoding = <<>>
    /\ \A i \in DOMAIN call.ret : call.ret[i] # "-map"
    /\ Len(call.ret) > 0

(***************************************************************************)
(* The file-test runner: claim C24, checked under SpecRunner.              *)
(***************************************************************************)
\* the runner was called, and what it was given
TestRan == icall.op = "file_test"

TestedStreams == icall.in.report.streams

\* the probe of the file failed: Probe.file returned None
ProbeFailed ==
    LET probed == Probe_file(Probe_init(Some({"video"})), icall.pre.path.value,
                             icall.in.exists, icall.in.pipe)
    IN ~Raised(probed.out) /\ probed.out.none

\* the probe succeeded and its report has no "streams" member
NoStreamsMember ==
    LET probed == Probe_file(Probe_init(Some({"video"})), icall.pre.path.value,
                             icall.in.exists, icall.in.pipe)
    IN ~Raised(probed.out) /\ ~probed.out.none
       /\ probed.self.probe_info.streams.missing

\* the i-th probed stream is of the kind
OfKind(i, kind) ==
    /\ ~TestedStreams[i].codec_type.missing
    /\ TestedStreams[i].codec_type.value = kind

\* the entry <<k, v>> says key contains value: the lower-cased k contains
\* the key and v contains the value
Says(entry, key, value) ==
    /\ \/ lower(entry[1]) = key
       \/ <<key, lower(entry[1])>> \in ProperSubstrings
    /\ \/ entry[2] = value
       \/ <<value, entry[2]>> \in ProperSubstrings

\* a video stream has the attribute key, and its value contains value
VideoStreamHas(key, value) ==
    \E i \in DOMAIN TestedStreams :
        /\ OfKind(i, "video")
        /\ ~TestedStreams[i][key].missing
        /\ \/ TestedStreams[i][key].value = value
           \/ <<value, TestedStreams[i][key].value>> \in ProperSubstrings

\* an entry of the format says so: a tag of the format, or the filename
\* when no tag is called "filename"
FormatSays(key, value) ==
    LET tags == IF icall.in.report.format_tags.missing
                THEN {} ELSE icall.in.report.format_tags.value
    IN \/ \E t \in tags : Says(t, key, value)
       \/ /\ \A t \in tags : t[1] # "filename"
          /\ Says(<<"filename", icall.pre.path.value>>, key, value)

\* the tags of the streams of a kind say so: every stream of the kind has
\* tags, and a tag of one of them says so that no later stream of the kind
\* gives another value
TagsSay(kind, key, value) ==
    /\ \A i \in DOMAIN TestedStreams : OfKind(i, kind) => ~TestedStreams[i].tags.missing
    /\ \E i \in DOMAIN TestedStreams :
          /\ OfKind(i, kind)
          /\ \E t \in TestedStreams[i].tags.value :
                /\ Says(t, key, value)
                /\ \A j \in DOMAIN TestedStreams :
                      (j > i /\ OfKind(j, kind)) =>
                          \A u \in TestedStreams[j].tags.value : u[1] # t[1]

\* a probed segment reports key containing value
SegmentReports(key, value) ==
    \/ VideoStreamHas(key, value)
    \/ FormatSays(key, value)
    \/ \E kind \in {"attachment", "video", "audio"} : TagsSay(kind, key, value)

\* C24 as stated: the runner sets add_file_to_pending_tasks to False when
\* the probe fails, and when a video stream has a codec_name containing
\* 'hevc' or 'h264' while no probed segment reports a pix_fmt containing
\* 'yuv420p10le'; otherwise the value is the one on entry; never True anew.
C24_BlocksEightBitVideoCodecs ==
    TestRan =>
        /\ data.path = icall.pre.path
        /\ data.add_file_to_pending_tasks =
              IF \/ ProbeFailed
                 \/ /\ ~ProbeFailed /\ ~NoStreamsMember
                    /\ \/ VideoStreamHas("codec_name", "hevc")
                       \/ VideoStreamHas("codec_name", "h264")
                    /\ ~SegmentReports("pix_fmt", "yuv420p10le")
              THEN FALSE
              ELSE icall.pre.add_file_to_pending_tasks

\* C24 amended: the runner sets add_file_to_pending_tasks to False when the
\* probe fails, and when some probed segment (a video stream's attribute, an
\* entry of the format, the merged tags of the attachment, video or audio
\* streams) reports a codec_name containing 'hevc' or 'h264' while none
\* reports a pix_fmt containing 'yuv420p10le'; a report without "streams"
\* makes the runner raise KeyError; otherwise the value is the one on
\* entry; it is never set to True.
C24_BlocksEightBitCodecsOfAnySegment ==
    TestRan =>
        /\ data.path = icall.pre.path
        /\ (data.add_file_to_pending_tasks => icall.pre.add_file_to_pending_tasks)
        /\ (icall.out.exc = "KeyError") = NoStreamsMember
        /\ data.add_file_to_pending_tasks =
              IF \/ ProbeFailed
                 \/ /\ ~ProbeFailed /\ ~NoStreamsMember
                    /\ \/ SegmentReports("codec_name", "hevc")
                       \/ SegmentReports("codec_name", "h264")
                    /\ ~SegmentReports("pix_fmt", "yuv420p10le")
              THEN FALSE
              ELSE icall.pre.add_file_to_pending_tasks

\* C24 witness: a file that was to be added is blocked although none of its
\* video streams has a codec_name with 'hevc' or 'h264': a tag of an audio
\* stream says so
C24_Witness ==
    /\ TestRan /\ ~Raised(icall.out)
    /\ ~ProbeFailed
    /\ icall.pre.add_file_to_pending_tasks
    /\ ~data.add_file_to_pending_tasks
    /\ Len(TestedStreams) = 2
    /\ OfKind(1, "video")
    /\ ~VideoStreamHas("codec_name", "hevc")
    /\ ~VideoStreamHas("codec_name", "h264")
    /\ TagsSay("audio", "codec_name", "hevc")

(***************************************************************************)
(* Two instances used in turn: claim C25, checked under SpecTwo.           *)
(***************************************************************************)
\* C25: a call on one StreamMapper instance (an option setter, a path
\* setter, set_output_null, a mapping pass, get_ffmpeg_args) changes nothing
\* of the other instance, neither its option groups, its two lists, its
\* counters nor its paths, and nothing of the lists of the class; so each
\* instance is what its own calls alone make it.
C25_InstancesDoNotInterfere ==
    [][call'.op # "switch" => (peer' = peer /\ klass' = klass)]_vars

\* C25 witness: both instances have run a pass and hold different, non-empty
\* lists of their own, the lists of the class are still empty, and the
\* argument list of one has just been built
C25_Witness ==
    /\ call.op = "get_ffmpeg_args" /\ ~call.raised
    /\ mapper.directive_lists = "instance"
    /\ peer.directive_lists = "instance"
    /\ mapper.stream_mapping # <<>>
    /\ peer.stream_mapping # <<>>
    /\ mapper.stream_mapping # peer.stream_mapping
    /\ klass = ClassLists
    /\ peer.main_options # mapper.main_options
    /\ \E i \in DOMAIN call.ret : call.ret[i] = "-map"

====
